---------------------------- MODULE Spec2Model ----------------------------
(***************************************************************************)
(* CRTOS kernel core (src/CRTOS.cpp): scheduler (SysTick, PendSV,         *)
(* switchCtx), Delay/Yield, binary semaphore, bounded queue and circular  *)
(* byte buffer, as a state machine.                                        *)
(*                                                                         *)
(* Granularity.  Code between getInterruptMask() and setInterruptMask()   *)
(* runs with basepri raised above the SysTick/PendSV priority, so it is    *)
(* one atomic step.  Code outside such a section is split at every read    *)
(* or write of shared state, and SysTick may fire between two steps.       *)
(* PendSV and SysTick share the lowest priority; a pended PendSV is taken  *)
(* before the next thread-mode instruction and before the next SysTick     *)
(* (lower exception number first).                                         *)
(*                                                                         *)
(* 32-bit unsigned values are kept in two's-complement form (0xFFFFFFFF is *)
(* -1), so that Add32 is exact modulo 2^32 and ULt/UGe are the unsigned    *)
(* comparisons of the hardware.                                            *)
(***************************************************************************)
EXTENDS Integers, Sequences, FiniteSets, TLC

(***************************************************************************)
(* Bounds of the model.                                                    *)
(***************************************************************************)
\* number of SysTick interrupts in a run
MaxTick == 2
\* largest delay / timeout argument a task passes
MaxArg == 3
\* nodes the heap can hold for waiter lists
MaxNodes == 4
\* capacity (elements) of the bounded queue
QCap == 2
\* capacity (bytes) of the circular buffer
CBCap == 3
\* longest chunk a task sends to or asks from the circular buffer
MaxChunk == 2
\* bytes of the pool passed to Config::InitMem
PoolSize == 3648
\* stack depth (words) the application passes to Task::Create
UserStackDepth == 32
\* a deeper stack, and smaller pools main may pass to Config::InitMem: room
\* for one task, for one task and the TCB of a second, for two tasks, and
\* for the TCB and the stack of one task but not for its list node
BigStackDepth == 64
NoNodePool == 304
OneTaskPool == 320
TightPool == 512
TwoTaskPool == 640
\* pools for binary modules: room for a TCB only, for a TCB and the small
\* image, for the whole small module, for the whole default-sized module
TCBOnlyPool == 128
ImageOnlyPool == 704
SmallModulePool == 1024
BigModulePool == 5376
\* image_size, .data, .bss and stack bytes of the small module
SmallImage == 512
SmallData == 16
SmallBss == 16
SmallStack == 256
BigData == 64

(***************************************************************************)
(* Program constants.                                                      *)
(***************************************************************************)
MAX_TASK_PRIORITY == 10
MaxInt32 == 2147483647

\* the cycle counter runs from CyclesAtStart (0xFFFFFFFD), CyclesBeforeWrap
\* cycles before its wrap, to LastCycle
CyclesBeforeWrap == 3
CyclesAtStart == 0 - CyclesBeforeWrap
LastCycle == 2
MAX_SYSCALL_IRQ_PRIO == 32
TimerStackDepth == 512
IdleStackDepth == 128
DEFAULT_MODULE_LEN == 4096
DEFAULT_STACK_SIZE == 1024

UserTasks == {"T1", "T2"}
TimerSVC == "TimerSVC"
IDLE == "IDLE"
\* a third application task, created only where three callers are needed
ThirdTask == "T3"
Tasks == UserTasks \cup {ThirdTask, TimerSVC, IDLE}
\* the SoftwareTimer objects of the application
TimerIds == {"tm1", "tm2"}
NoTask == "none"

RUNNING == "TASK_RUNNING"
READY == "TASK_READY"
DELAYED == "TASK_DELAYED"
PAUSED == "TASK_PAUSED"
BLOCKED_BY_SEMAPHORE == "TASK_BLOCKED_BY_SEMAPHORE"
BLOCKED_BY_QUEUE == "TASK_BLOCKED_BY_QUEUE"
BLOCKED_BY_CIRC_BUFFER == "TASK_BLOCKED_BY_CIRC_BUFFER"
TaskState == {RUNNING, READY, DELAYED, PAUSED, BLOCKED_BY_SEMAPHORE,
              BLOCKED_BY_QUEUE, BLOCKED_BY_CIRC_BUFFER}

VARIABLES
    tickCount,      \* static volatile uint32_t tickCount
    readyTaskList,  \* sequence of the TCBs linked from readyTaskList
    tcbState,       \* TaskControlBlock::state
    tcbPriority,    \* TaskControlBlock::priority
    tcbTimeout,     \* TaskControlBlock::timeout
    tcbDelayUpTo,   \* TaskControlBlock::delayUpTo
    sCurrentTCB,    \* volatile TaskControlBlock *sCurrentTCB
    pendSV,         \* ICSR.PENDSVSET
    node,           \* heap of Node<uint32_t *> objects
    tail,           \* Node<uint32_t *>::tail, one static for all waiter lists
    semVal,         \* BinarySemaphore::_val
    semList,        \* BinarySemaphore::listOfTasksWaitingToRecv
    mQueue, mFront, mRear, mSize,   \* Queue members
    qList,          \* Queue::listOfTasksWaitingToRecv
    mBuffer, mHead, mTail, mCurrentSize,    \* CircularBuffer members
    cbList,         \* CircularBuffer::listOfTasksWaitingToRecv
    pc,             \* where each task is in its code
    loc,            \* locals of the kernel call each task is in
    result,         \* the last kernel call of each task and what it returned
    nTicks,         \* history: SysTick interrupts since the start of the run
    pendBy,         \* history: who set ICSR.PENDSVSET
    enterTick,      \* history: nTicks when the task entered its blocking call
    waitOrder,      \* history: tasks inside wait(), in the order they blocked
    qModel,         \* history: elements sent and not yet received, oldest first
    cbModel,        \* history: bytes sent and not yet received, oldest first
    heap,           \* HeapAllocator: the blocks of the pool, in address order
    tcbMem,         \* where the TCB, the stack and the ready-list node of a task lie
    sTimerList,     \* the timers linked from sTimerList, in list order
    timer,          \* SoftwareTimer::isActive, elapsedTicks, timeoutTicks, autoReload
    bootResult,     \* what the last kernel call made before Scheduler::Start returned
    wakeTick,       \* history: nTicks at which the delay a task asked for is over
    fired,          \* history: how often the callback of a timer has run
    startTick,      \* history: nTicks when Timer::Start last succeeded
    flag,           \* Mutex::flag, the atomic_flag
    irqMask,        \* irqMask, where Mutex::Lock keeps the mask it found
    basepri,        \* the BASEPRI register: 0, or MAX_SYSCALL_IRQ_PRIO when masked
    inSection,      \* history: the tasks between their Lock and their Unlock
    CYCCNT,         \* DWT->CYCCNT, the free-running 32-bit cycle counter
    enterCycles,    \* TaskControlBlock::enterCycles
    exitCycles,     \* TaskControlBlock::exitCycles
    executionTime   \* TaskControlBlock::executionTime

kvars == <<tickCount, readyTaskList, tcbState, tcbPriority, tcbTimeout,
           tcbDelayUpTo, sCurrentTCB, pendSV, pendBy, nTicks>>
lvars == <<node, tail>>
svars == <<semVal, semList, waitOrder>>
qvars == <<mQueue, mFront, mRear, mSize, qList, qModel>>
cvars == <<mBuffer, mHead, mTail, mCurrentSize, cbList, cbModel>>
tvars == <<pc, loc, result, enterTick>>
mvars == <<heap, tcbMem, bootResult>>
tmvars == <<sTimerList, timer, fired, startTick>>
uvars == <<flag, irqMask, basepri, inSection>>
cycvars == <<CYCCNT, enterCycles, exitCycles, executionTime>>
xvars == <<mvars, tmvars, wakeTick, uvars, cycvars>>
vars == <<kvars, lvars, svars, qvars, cvars, tvars, xvars>>

(***************************************************************************)
(* uint32_t arithmetic, two's-complement representation.                   *)
(***************************************************************************)
Add32(a, b) ==
    IF a > 0 /\ b > MaxInt32 - a
    THEN (a - MaxInt32 - 1) + (b - MaxInt32 - 1)
    ELSE IF a < 0 /\ b < (-MaxInt32 - 1) - a
    THEN (a + MaxInt32 + 1) + (b + MaxInt32 + 1)
    ELSE a + b

ULt(a, b) == IF (a >= 0) = (b >= 0) THEN a < b ELSE b < 0

UGe(a, b) == ~ULt(a, b)

\* a - b in uint32_t
Sub32(a, b) == IF b = -MaxInt32 - 1 THEN Add32(a, b) ELSE Add32(a, -b)

\* a uint64_t as its two 32-bit words; U64(x) is the conversion of the
\* uint32_t x
U64(x) == [hi |-> 0, lo |-> x]

\* a + x in uint64_t, x a uint32_t
Add64(a, x) ==
    LET lo == Add32(a.lo, x)
    IN [hi |-> IF ULt(lo, a.lo) THEN a.hi + 1 ELSE a.hi, lo |-> lo]


(***************************************************************************)
(* Intrusive lists (Node<T>).  A pointer is a node index, nullptr is 0.    *)
(* The ready list has its own static tail (Node<TaskControlBlock>::tail)   *)
(* and is never shared, so it is kept as the sequence of its elements.     *)
(* The waiter lists of all primitives are Node<uint32_t *> lists and share *)
(* the one static Node<uint32_t *>::tail.                                  *)
(***************************************************************************)
nullptr == 0
Nodes == 1..MaxNodes

\* The data of a waiter node is the address of the local `tmp` of the
\* blocking call that made it: the stack slot of task tcb in function fn.
Slot(t, f) == [tcb |-> t, fn |-> f]
NoSlot == Slot(NoTask, "none")
FreeNode == [used |-> FALSE, data |-> NoSlot, next |-> nullptr, prev |-> nullptr]

\* mem.allocate(sizeof(Node<T>)): first fit, nullptr when the heap is full
allocate(nd) ==
    IF \E n \in Nodes : ~nd[n].used
    THEN CHOOSE n \in Nodes : ~nd[n].used /\ \A m \in Nodes : ~nd[m].used => n <= m
    ELSE nullptr

RECURSIVE LastNode(_, _)
LastNode(nd, n) == IF nd[n].next = nullptr THEN n ELSE LastNode(nd, nd[n].next)

ListInsertAtEnd(nd, head, tl, data) ==
    LET newNode == allocate(nd) IN
    IF newNode = nullptr
    THEN [node |-> nd, head |-> head, tail |-> tl]
    ELSE LET nd1 == [nd EXCEPT ![newNode] =
                        [used |-> TRUE, data |-> data, next |-> nullptr, prev |-> nullptr]]
         IN IF head = nullptr
            THEN [node |-> nd1, head |-> newNode, tail |-> newNode]
            ELSE LET last == IF tl # nullptr THEN tl ELSE LastNode(nd1, head)
                 IN [node |-> [nd1 EXCEPT ![last].next = newNode, ![newNode].prev = last],
                     head |-> head, tail |-> newNode]

ListDeleteAtBeginning(nd, head, tl) ==
    IF head = nullptr
    THEN [node |-> nd, head |-> head, tail |-> tl]
    ELSE LET nodeToDelete == head
             head1 == nd[head].next
             nd1 == IF head1 # nullptr THEN [nd EXCEPT ![head1].prev = nullptr] ELSE nd
             tl1 == IF head1 # nullptr THEN tl ELSE nullptr
             tl2 == IF nodeToDelete = tl1 THEN head1 ELSE tl1
         IN [node |-> [nd1 EXCEPT ![nodeToDelete] = FreeNode], head |-> head1, tail |-> tl2]

\* the nodes reachable from a list head, in order
RECURSIVE ListNodes(_, _)
ListNodes(nd, n) == IF n = nullptr THEN <<>> ELSE <<n>> \o ListNodes(nd, nd[n].next)

(***************************************************************************)
(* HeapAllocator (src/HeapAllocator.cpp).  The pool is a chain of blocks   *)
(* in address order; a block is its header (struct Block, then one marker  *)
(* word before and one after the payload) and `size` bytes of payload.     *)
(* heap is that chain: `at` is the offset of the header in the pool.  A    *)
(* pointer handed out is the offset of the payload; no payload starts at   *)
(* offset 0, which is nullptr.  The empty chain is the allocator before    *)
(* init (head = nullptr, mPool = nullptr).                                 *)
(***************************************************************************)
SizeofBlock == 24
SizeofMarker == 4
BlockOverhead == SizeofBlock + 2 * SizeofMarker
SizeofTCB == 80
SizeofNode == 12

align8(size) == ((size + 7) \div 8) * 8

PayloadOf(b) == b.at + SizeofBlock + SizeofMarker

HeapAllocator_init(totalSize) ==
    << [at |-> 0, size |-> totalSize - BlockOverhead, free |-> TRUE] >>

\* split(block, size): the block keeps `size` bytes, the rest becomes a new
\* free block behind it
split(h, i, size) ==
    LET newBlock == [at |-> h[i].at + BlockOverhead + size,
                     size |-> h[i].size - size - BlockOverhead,
                     free |-> TRUE]
    IN SubSeq(h, 1, i - 1) \o << [h[i] EXCEPT !.size = size], newBlock >>
           \o SubSeq(h, i + 1, Len(h))

\* the block found is split when the rest can hold a header, then handed out
TakeBlock(h, i, size) ==
    LET h1 == IF h[i].size >= size + BlockOverhead THEN split(h, i, size) ELSE h
    IN [heap |-> [h1 EXCEPT ![i].free = FALSE], ptr |-> PayloadOf(h[i])]

\* the search of allocate: `forward` walks from head and `backward` from
\* tail, one block each per pass; index 0 is nullptr
RECURSIVE AllocateFrom(_, _, _, _)
AllocateFrom(h, forward, backward, size) ==
    IF forward = 0 /\ backward = 0
    THEN [heap |-> h, ptr |-> nullptr]
    ELSE IF forward # 0 /\ h[forward].free /\ h[forward].size >= size
    THEN TakeBlock(h, forward, size)
    ELSE LET forward1 == IF forward = 0 \/ forward = Len(h) THEN 0 ELSE forward + 1
         IN IF backward # 0 /\ backward # forward1
            THEN IF h[backward].free /\ h[backward].size >= size
                 THEN TakeBlock(h, backward, size)
                 ELSE AllocateFrom(h, forward1, backward - 1, size)
            ELSE AllocateFrom(h, forward1, backward, size)

HeapAllocator_allocate(h, size) ==
    IF size = 0
    THEN [heap |-> h, ptr |-> nullptr]
    ELSE AllocateFrom(h, IF h = <<>> THEN 0 ELSE 1, Len(h), align8(size))

\* join(block) and the same two tests in deallocate: a free neighbour in
\* front takes the block in, then the free neighbour behind is taken in
join(h, i) ==
    LET a == IF i > 1 /\ h[i - 1].free
             THEN [heap |-> SubSeq(h, 1, i - 2)
                             \o << [h[i - 1] EXCEPT
                                      !.size = h[i - 1].size + h[i].size + BlockOverhead] >>
                             \o SubSeq(h, i + 1, Len(h)),
                   block |-> i - 1]
             ELSE [heap |-> h, block |-> i]
        g == a.heap
        j == a.block
    IN IF j < Len(g) /\ g[j + 1].free
       THEN [heap |-> SubSeq(g, 1, j - 1)
                       \o << [g[j] EXCEPT !.size = g[j].size + g[j + 1].size + BlockOverhead] >>
                       \o SubSeq(g, j + 2, Len(g)),
             block |-> j]
       ELSE a

\* deallocate(ptr) for a pointer allocate has handed out and that was not
\* given back since; nullptr is ignored
HeapAllocator_deallocate(h, ptr) ==
    IF ptr = nullptr \/ ~\E i \in 1..Len(h) : PayloadOf(h[i]) = ptr
    THEN h
    ELSE LET i == CHOOSE k \in 1..Len(h) : PayloadOf(h[k]) = ptr
             first == join([h EXCEPT ![i].free = TRUE], i)
         IN join(first.heap, first.block).heap

\* the payload pointers handed out and not given back
LiveAllocations(h) == {PayloadOf(h[i]) : i \in {k \in 1..Len(h) : ~h[k].free}}

(***************************************************************************)
(* Locals of the kernel call a task is in.                                 *)
(***************************************************************************)
NoLoc == [fn |-> "none", ticks |-> 0, timeout |-> 0, time |-> 0,
          isBlocked |-> FALSE, item |-> 0, size |-> 0, data |-> <<>>,
          tm |-> "none", left |-> 0]
NoResult == [op |-> "none", code |-> "none", item |-> 0, data |-> <<>>]

\* where a task is between two kernel calls
Home(t) == IF t = TimerSVC THEN "TimerISR" ELSE IF t = IDLE THEN "idleTask" ELSE "user"

\* PendSV and SysTick have the lowest priority (0xFF): a raised BASEPRI keeps
\* them pending
Masked == basepri # 0

\* task t executes its next thread-mode instruction
Thread(t) == sCurrentTCB = t /\ (pendSV => Masked)

\* Reading *(TaskControlBlock **)(head->data).  While the call that owns the
\* slot is still blocked in its loop the slot holds its TCB pointer; once
\* that call has returned the slot is dead stack: it may still hold the
\* pointer or anything else (NoTask: no TCB is touched).
SlotLive(s) == s.tcb \in Tasks /\ loc[s.tcb].isBlocked /\ loc[s.tcb].fn = s.fn
SlotValues(s) == IF SlotLive(s) THEN {s.tcb} ELSE {s.tcb, NoTask}

\* a wake-up that makes the head waiter READY whatever its state
WakeWaiter_anyState(st, w, blocked) ==
    IF w # NoTask THEN [st EXCEPT ![w] = READY] ELSE st

\* if (tmp->state == blocked) tmp->state = READY, for tmp read from the head
WakeWaiter(st, w, blocked) ==
    IF w # NoTask /\ st[w] = blocked THEN [st EXCEPT ![w] = READY] ELSE st

\* return from a kernel call; item / data is what the call wrote through its
\* out-parameter
ReturnWith(t, op, code, item, data) ==
    /\ pc' = [pc EXCEPT ![t] = Home(t)]
    /\ loc' = [loc EXCEPT ![t] = NoLoc]
    /\ result' = [result EXCEPT ![t] = [op |-> op, code |-> code, item |-> item, data |-> data]]
    /\ enterTick' = [enterTick EXCEPT ![t] = 0]

Return(t, op, code) == ReturnWith(t, op, code, 0, <<>>)

(***************************************************************************)
(* Scheduler.                                                              *)
(***************************************************************************)
Blocked == {BLOCKED_BY_SEMAPHORE, BLOCKED_BY_QUEUE, BLOCKED_BY_CIRC_BUFFER}

RECURSIVE isPendingTaskFrom(_, _, _)
isPendingTaskFrom(i, st, now) ==
    IF i > Len(readyTaskList)
    THEN [state |-> st, ret |-> FALSE]
    ELSE LET t == readyTaskList[i]
             st1 == IF st[t] = DELAYED /\ UGe(now, tcbDelayUpTo[t])
                    THEN [st EXCEPT ![t] = READY] ELSE st
         IN IF st1[t] = READY
            THEN [state |-> st1, ret |-> TRUE]
            ELSE isPendingTaskFrom(i + 1, st1, now)

isPendingTask(st, now) == isPendingTaskFrom(1, st, now)

RECURSIVE isHigherPrioTaskPendingFrom(_, _, _, _)
isHigherPrioTaskPendingFrom(i, st, now, cur) ==
    IF i > Len(readyTaskList)
    THEN [state |-> st, ret |-> FALSE]
    ELSE LET t == readyTaskList[i]
             st1 == IF st[t] = DELAYED /\ UGe(now, tcbDelayUpTo[t])
                    THEN [st EXCEPT ![t] = READY] ELSE st
         IN IF st1[t] = READY /\ tcbPriority[cur] < tcbPriority[t]
            THEN [state |-> st1, ret |-> TRUE]
            ELSE isHigherPrioTaskPendingFrom(i + 1, st1, now, cur)

isHigherPrioTaskPending(st, now, cur) == isHigherPrioTaskPendingFrom(1, st, now, cur)

\* the while loop of switchCtx: best is the index of highestPriorityTask, 0 for nullptr
RECURSIVE switchCtxFrom(_, _, _, _, _)
switchCtxFrom(i, st, now, cur, best) ==
    IF i > Len(readyTaskList)
    THEN [state |-> st, best |-> best]
    ELSE LET t == readyTaskList[i]
             st1 == CASE st[t] = DELAYED ->
                            IF UGe(now, tcbDelayUpTo[t]) THEN [st EXCEPT ![t] = READY] ELSE st
                      [] st[t] \in Blocked ->
                            IF UGe(now, tcbTimeout[t]) THEN [st EXCEPT ![t] = READY] ELSE st
                      [] st[t] = RUNNING -> [st EXCEPT ![cur] = READY]
                      [] OTHER -> st
             best1 == IF st1[t] = READY
                         /\ (best = 0 \/ tcbPriority[t] > tcbPriority[readyTaskList[best]])
                      THEN i ELSE best
         IN switchCtxFrom(i + 1, st1, now, cur, best1)

\* switchCtx with `>=` in place of `>` in the comparison of priorities: among
\* READY tasks of the highest priority the last one in the list wins
switchCtx_lastOfTies(st, now, cur) ==
    LET r == switchCtxFrom(1, st, now, cur, 0)
        R == {i \in 1..Len(readyTaskList) : r.state[readyTaskList[i]] = READY}
        best == IF R = {} THEN 0
                ELSE CHOOSE i \in R : \A j \in R :
                        \/ tcbPriority[readyTaskList[j]] < tcbPriority[readyTaskList[i]]
                        \/ (tcbPriority[readyTaskList[j]] = tcbPriority[readyTaskList[i]] /\ j <= i)
        next == IF best # 0 THEN readyTaskList[best] ELSE IDLE
    IN [state |-> [r.state EXCEPT ![next] = RUNNING], current |-> next]

switchCtx(st, now, cur) ==
    LET r == switchCtxFrom(1, st, now, cur, 0)
        next == IF r.best # 0 THEN readyTaskList[r.best] ELSE IDLE
    IN [state |-> [r.state EXCEPT ![next] = RUNNING], current |-> next]

\* the cycles switchCtx charges to the outgoing task
elapsedCycles(enter, exit) ==
    IF ULt(exit, enter)
    THEN Add32(Sub32(-1, exit), enter)
    ELSE Sub32(exit, enter)

\* switchStartTime and switchTime are left out: the handler is one step, in
\* which the counter does not advance, so that switchedIn always finds a
\* difference of 0 and clears switchStartTime again
PendSV_Handler ==
    /\ pendSV
    /\ ~Masked
    /\ LET r == switchCtx(tcbState, tickCount, sCurrentTCB)
       IN /\ tcbState' = r.state
          /\ sCurrentTCB' = r.current
          /\ enterCycles' = [enterCycles EXCEPT ![r.current] = CYCCNT]
    /\ exitCycles' = [exitCycles EXCEPT ![sCurrentTCB] = CYCCNT]
    /\ executionTime' = [executionTime EXCEPT ![sCurrentTCB] =
                             U64(elapsedCycles(enterCycles[sCurrentTCB], CYCCNT))]
    /\ pendSV' = FALSE
    /\ pendBy' = "none"
    /\ UNCHANGED <<tickCount, readyTaskList, tcbPriority, tcbTimeout, tcbDelayUpTo, nTicks>>
    /\ UNCHANGED <<lvars, svars, qvars, cvars, tvars>>
    /\ UNCHANGED <<mvars, tmvars, wakeTick, uvars, CYCCNT>>

\* the cycle counter, when the application has enabled it, counts
DWT_Count ==
    /\ CYCCNT # LastCycle
    /\ CYCCNT' = Add32(CYCCNT, 1)
    /\ UNCHANGED <<kvars, lvars, svars, qvars, cvars, tvars>>
    /\ UNCHANGED <<mvars, tmvars, wakeTick, uvars, enterCycles, exitCycles, executionTime>>

\* a tick that counts and promotes but never pends PendSV
SysTick_Handler_countOnly ==
    /\ ~pendSV
    /\ ~Masked
    /\ nTicks < MaxTick
    /\ tickCount' = Add32(tickCount, 1)
    /\ nTicks' = nTicks + 1
    /\ tcbState' = isPendingTask(tcbState, tickCount').state
    /\ UNCHANGED <<pendSV, pendBy>>
    /\ UNCHANGED <<readyTaskList, tcbPriority, tcbTimeout, tcbDelayUpTo, sCurrentTCB>>
    /\ UNCHANGED <<lvars, svars, qvars, cvars, tvars>>
    /\ UNCHANGED xvars

SysTick_Handler ==
    /\ ~pendSV
    /\ ~Masked
    /\ nTicks < MaxTick
    /\ tickCount' = Add32(tickCount, 1)
    /\ nTicks' = nTicks + 1
    /\ LET r == isPendingTask(tcbState, tickCount')
       IN /\ tcbState' = r.state
          /\ pendSV' = r.ret
          /\ pendBy' = IF r.ret THEN "SysTick" ELSE "none"
    /\ UNCHANGED <<readyTaskList, tcbPriority, tcbTimeout, tcbDelayUpTo, sCurrentTCB>>
    /\ UNCHANGED <<lvars, svars, qvars, cvars, tvars>>
    /\ UNCHANGED xvars

\* for (;;) { if (isPendingTask()) pend PendSV; }
idleTask(t) ==
    /\ Thread(t)
    /\ pc[t] = "idleTask"
    /\ LET r == isPendingTask(tcbState, tickCount)
       IN /\ tcbState' = r.state
          /\ pendSV' = r.ret
          /\ pendBy' = IF r.ret THEN t ELSE "none"
    /\ UNCHANGED <<tickCount, readyTaskList, tcbPriority, tcbTimeout, tcbDelayUpTo,
                   sCurrentTCB, nTicks>>
    /\ UNCHANGED <<lvars, svars, qvars, cvars, tvars>>
    /\ UNCHANGED xvars

(***************************************************************************)
(* Mutex.  One Mutex object; irqMask is not a local of Lock, the mask that *)
(* Lock found is kept in one place for all callers.                        *)
(***************************************************************************)
\* a Lock that reads BASEPRI and leaves it as it is
Mutex_Lock_noMask(t) ==
    /\ Thread(t)
    /\ pc[t] = "user"
    /\ irqMask' = basepri
    /\ basepri' = basepri
    /\ pc' = [pc EXCEPT ![t] = "Lock_spin"]
    /\ loc' = [loc EXCEPT ![t] = [NoLoc EXCEPT !.fn = "Lock"]]
    /\ UNCHANGED <<result, enterTick, flag, inSection>>
    /\ UNCHANGED <<kvars, lvars, svars, qvars, cvars, mvars, tmvars, wakeTick, cycvars>>

\* Mutex::Lock: irqMask = getInterruptMask(), which raises BASEPRI to
\* MAX_SYSCALL_IRQ_PRIO and returns what it was
Mutex_Lock(t) ==
    /\ Thread(t)
    /\ pc[t] = "user"
    /\ irqMask' = basepri
    /\ basepri' = MAX_SYSCALL_IRQ_PRIO
    /\ pc' = [pc EXCEPT ![t] = "Lock_spin"]
    /\ loc' = [loc EXCEPT ![t] = [NoLoc EXCEPT !.fn = "Lock"]]
    /\ UNCHANGED <<result, enterTick, flag, inSection>>
    /\ UNCHANGED <<kvars, lvars, svars, qvars, cvars, mvars, tmvars, wakeTick, cycvars>>

\* Mutex::Lock: while (flag.test_and_set()) ;  one turn of the loop
Lock_spin(t) ==
    /\ Thread(t)
    /\ pc[t] = "Lock_spin"
    /\ flag' = TRUE
    /\ IF flag
       THEN UNCHANGED <<pc, loc, result, enterTick, inSection>>
       ELSE /\ Return(t, "Lock", "void")
            /\ inSection' = inSection \cup {t}
    /\ UNCHANGED <<irqMask, basepri>>
    /\ UNCHANGED <<kvars, lvars, svars, qvars, cvars, mvars, tmvars, wakeTick, cycvars>>

\* Mutex::Unlock: flag.clear(); setInterruptMask(irqMask)
Mutex_Unlock(t) ==
    /\ Thread(t)
    /\ pc[t] = "user"
    /\ t \in inSection
    /\ flag' = FALSE
    /\ basepri' = irqMask
    /\ inSection' = inSection \ {t}
    /\ Return(t, "Unlock", "void")
    /\ UNCHANGED irqMask
    /\ UNCHANGED <<kvars, lvars, svars, qvars, cvars, mvars, tmvars, wakeTick, cycvars>>

(***************************************************************************)
(* Software timers.  init tells whether Timer::Init has run on the object; *)
(* Start and Stop are called on initialised timers only.                   *)
(***************************************************************************)
NoTimer == [timeoutTicks |-> 0, elapsedTicks |-> 0, isActive |-> FALSE,
            autoReload |-> FALSE, init |-> FALSE]

\* Timer::Init: the node of sTimerList comes from the allocator, and
\* ListInsertAtBeginning returns without linking when there is none
Timer_Init(t, tm, timeoutTicks, autoReload) ==
    /\ Thread(t)
    /\ pc[t] = "user"
    /\ ~timer[tm].init
    /\ timer' = [timer EXCEPT ![tm] = [timeoutTicks |-> timeoutTicks, elapsedTicks |-> 0,
                                       isActive |-> FALSE, autoReload |-> autoReload,
                                       init |-> TRUE]]
    /\ LET newNode == HeapAllocator_allocate(heap, SizeofNode)
       IN /\ heap' = newNode.heap
          /\ sTimerList' = IF newNode.ptr = nullptr THEN sTimerList
                           ELSE <<tm>> \o sTimerList
    /\ Return(t, "Timer_Init", "SUCCESS")
    /\ UNCHANGED <<kvars, lvars, svars, qvars, cvars>>
    /\ UNCHANGED <<tcbMem, bootResult, fired, startTick, wakeTick, cycvars, uvars>>

\* a Start that sets an active timer going again
Timer_Start_restarts(t, tm) ==
    /\ Thread(t)
    /\ pc[t] = "user"
    /\ timer[tm].init
    /\ pc' = [pc EXCEPT ![t] = "Start_set"]
    /\ loc' = [loc EXCEPT ![t] = [NoLoc EXCEPT !.fn = "Start", !.tm = tm]]
    /\ UNCHANGED <<result, enterTick>>
    /\ UNCHANGED <<kvars, lvars, svars, qvars, cvars, xvars>>

\* Timer::Start: if (timer->isActive == true) return TIMER_ALREADY_ACTIVE
Timer_Start(t, tm) ==
    /\ Thread(t)
    /\ pc[t] = "user"
    /\ timer[tm].init
    /\ IF timer[tm].isActive
       THEN Return(t, "Start", "TIMER_ALREADY_ACTIVE")
       ELSE /\ pc' = [pc EXCEPT ![t] = "Start_set"]
            /\ loc' = [loc EXCEPT ![t] = [NoLoc EXCEPT !.fn = "Start", !.tm = tm]]
            /\ UNCHANGED <<result, enterTick>>
    /\ UNCHANGED <<kvars, lvars, svars, qvars, cvars, xvars>>

\* Timer::Start: elapsedTicks = 0; isActive = true; return SUCCESS
Start_set(t) ==
    /\ Thread(t)
    /\ pc[t] = "Start_set"
    /\ timer' = [timer EXCEPT ![loc[t].tm].elapsedTicks = 0, ![loc[t].tm].isActive = TRUE]
    /\ fired' = [fired EXCEPT ![loc[t].tm] = 0]
    /\ startTick' = [startTick EXCEPT ![loc[t].tm] = nTicks]
    /\ Return(t, "Start", "SUCCESS")
    /\ UNCHANGED <<kvars, lvars, svars, qvars, cvars>>
    /\ UNCHANGED <<mvars, sTimerList, wakeTick, cycvars, uvars>>

\* Timer::Stop: if (timer->isActive == true) return TIMER_ALREADY_STOPPED
Timer_Stop(t, tm) ==
    /\ Thread(t)
    /\ pc[t] = "user"
    /\ timer[tm].init
    /\ IF timer[tm].isActive
       THEN /\ Return(t, "Stop", "TIMER_ALREADY_STOPPED")
            /\ UNCHANGED timer
       ELSE /\ timer' = [timer EXCEPT ![tm].isActive = FALSE, ![tm].elapsedTicks = 0]
            /\ Return(t, "Stop", "SUCCESS")
    /\ UNCHANGED <<kvars, lvars, svars, qvars, cvars>>
    /\ UNCHANGED <<mvars, sTimerList, fired, startTick, wakeTick, cycvars, uvars>>

\* the body of the loop of TimerISR for one timer; fires tells whether the
\* callback is called
TimerISR_visit(tmr) ==
    IF ~tmr.isActive
    THEN [timer |-> tmr, fires |-> FALSE]
    ELSE IF UGe(Add32(tmr.elapsedTicks, 1), tmr.timeoutTicks)
    THEN [timer |-> [tmr EXCEPT !.elapsedTicks = 0, !.isActive = tmr.autoReload],
          fires |-> TRUE]
    ELSE [timer |-> [tmr EXCEPT !.elapsedTicks = Add32(tmr.elapsedTicks, 1)],
          fires |-> FALSE]

\* the timer-service task: tmp = sTimerList; with no timer linked this is one
\* pass of the loop up to its call of Delay(1)
TimerISR(t) ==
    /\ Thread(t)
    /\ pc[t] = "TimerISR"
    /\ IF sTimerList = <<>>
       THEN /\ pc' = [pc EXCEPT ![t] = "Delay_cs"]
            /\ loc' = [loc EXCEPT ![t] = [NoLoc EXCEPT !.fn = "Delay", !.ticks = 1]]
       ELSE /\ pc' = [pc EXCEPT ![t] = "TimerISR_node"]
            /\ loc' = [loc EXCEPT ![t] = [NoLoc EXCEPT !.fn = "TimerISR",
                                              !.left = Len(sTimerList)]]
    /\ UNCHANGED <<result, enterTick>>
    /\ UNCHANGED <<kvars, lvars, svars, qvars, cvars>>
    /\ UNCHANGED xvars

\* one timer of the list is served, tmp = tmp->next; after the last one the
\* task calls Delay(1).  left counts the nodes from tmp to the end: a timer
\* that Init links meanwhile goes in front of tmp.
TimerISR_node(t) ==
    /\ Thread(t)
    /\ pc[t] = "TimerISR_node"
    /\ LET tm == sTimerList[Len(sTimerList) - loc[t].left + 1]
           v == TimerISR_visit(timer[tm])
       IN /\ timer' = [timer EXCEPT ![tm] = v.timer]
          /\ fired' = [fired EXCEPT ![tm] = IF v.fires THEN @ + 1 ELSE @]
    /\ IF loc[t].left = 1
       THEN /\ pc' = [pc EXCEPT ![t] = "Delay_cs"]
            /\ loc' = [loc EXCEPT ![t] = [NoLoc EXCEPT !.fn = "Delay", !.ticks = 1]]
       ELSE /\ loc' = [loc EXCEPT ![t].left = @ - 1]
            /\ UNCHANGED pc
    /\ UNCHANGED <<result, enterTick>>
    /\ UNCHANGED <<kvars, lvars, svars, qvars, cvars>>
    /\ UNCHANGED <<mvars, sTimerList, startTick, wakeTick, cycvars, uvars>>

(***************************************************************************)
(* Task::Delay, Task::Yield                                                *)
(***************************************************************************)
Delay_call(t, ticks) ==
    /\ Thread(t)
    /\ pc[t] = "user"
    /\ IF ticks = 0
       THEN /\ Return(t, "Delay", "BAD_PARAMETER")
       ELSE /\ pc' = [pc EXCEPT ![t] = "Delay_cs"]
            /\ loc' = [loc EXCEPT ![t] = [NoLoc EXCEPT !.fn = "Delay", !.ticks = ticks]]
            /\ UNCHANGED <<result, enterTick>>
    /\ UNCHANGED <<kvars, lvars, svars, qvars, cvars>>
    /\ UNCHANGED xvars

Delay_cs(t) ==
    /\ Thread(t)
    /\ pc[t] = "Delay_cs"
    /\ tcbState' = [tcbState EXCEPT ![sCurrentTCB] = DELAYED]
    /\ tcbDelayUpTo' = [tcbDelayUpTo EXCEPT ![sCurrentTCB] = Add32(tickCount, loc[t].ticks)]
    /\ pc' = [pc EXCEPT ![t] = "Delay_pend"]
    /\ UNCHANGED <<loc, result, enterTick>>
    /\ UNCHANGED <<tickCount, readyTaskList, tcbPriority, tcbTimeout, sCurrentTCB,
                   pendSV, pendBy, nTicks>>
    /\ UNCHANGED <<lvars, svars, qvars, cvars>>
    /\ wakeTick' = [wakeTick EXCEPT ![sCurrentTCB] = nTicks + loc[t].ticks]
    /\ UNCHANGED <<mvars, tmvars, uvars, cycvars>>

Delay_pend(t) ==
    /\ Thread(t)
    /\ pc[t] = "Delay_pend"
    /\ pendSV' = TRUE
    /\ pendBy' = t
    /\ Return(t, "Delay", "SUCCESS")
    /\ UNCHANGED <<tickCount, readyTaskList, tcbState, tcbPriority, tcbTimeout,
                   tcbDelayUpTo, sCurrentTCB, nTicks>>
    /\ UNCHANGED <<lvars, svars, qvars, cvars>>
    /\ UNCHANGED xvars

Yield(t) ==
    /\ Thread(t)
    /\ pc[t] = "user"
    /\ LET r == isHigherPrioTaskPending(tcbState, tickCount, sCurrentTCB)
       IN /\ tcbState' = r.state
          /\ pendSV' = r.ret
          /\ pendBy' = IF r.ret THEN t ELSE "none"
    /\ Return(t, "Yield", "void")
    /\ UNCHANGED <<tickCount, readyTaskList, tcbPriority, tcbTimeout, tcbDelayUpTo,
                   sCurrentTCB, nTicks>>
    /\ UNCHANGED <<lvars, svars, qvars, cvars>>
    /\ UNCHANGED xvars


(***************************************************************************)
(* BinarySemaphore                                                         *)
(***************************************************************************)
Remove(seq, t) == SelectSeq(seq, LAMBDA x : x # t)

\* signal that hands the semaphore to the head waiter and sets _val only
\* when nobody waits
BinarySemaphore_signal_handoff(t) ==
    /\ Thread(t)
    /\ pc[t] = "user"
    /\ IF semVal > 0
       THEN /\ Return(t, "signal", "SEMAPHORE_BUSY")
            /\ UNCHANGED <<tcbState, node, tail, semVal, semList>>
       ELSE /\ IF semList # nullptr
               THEN /\ \E tmp \in SlotValues(node[semList].data) :
                          tcbState' = WakeWaiter(tcbState, tmp, BLOCKED_BY_SEMAPHORE)
                    /\ LET d == ListDeleteAtBeginning(node, semList, tail)
                       IN /\ node' = d.node
                          /\ semList' = d.head
                          /\ tail' = d.tail
                    /\ semVal' = semVal
               ELSE /\ UNCHANGED <<tcbState, node, tail, semList>>
                    /\ semVal' = 1
            /\ Return(t, "signal", "SUCCESS")
    /\ UNCHANGED <<tickCount, readyTaskList, tcbPriority, tcbTimeout, tcbDelayUpTo,
                   sCurrentTCB, pendSV, pendBy, nTicks>>
    /\ UNCHANGED <<waitOrder, qvars, cvars>>
    /\ UNCHANGED xvars

BinarySemaphore_signal(t) ==
    /\ Thread(t)
    /\ pc[t] = "user"
    /\ IF semVal > 0
       THEN /\ Return(t, "signal", "SEMAPHORE_BUSY")
            /\ UNCHANGED <<tcbState, node, tail, semVal, semList>>
       ELSE /\ IF semList # nullptr
               THEN /\ \E tmp \in SlotValues(node[semList].data) :
                          tcbState' = WakeWaiter(tcbState, tmp, BLOCKED_BY_SEMAPHORE)
                    /\ LET d == ListDeleteAtBeginning(node, semList, tail)
                       IN /\ node' = d.node
                          /\ semList' = d.head
                          /\ tail' = d.tail
               ELSE UNCHANGED <<tcbState, node, tail, semList>>
            /\ semVal' = 1
            /\ Return(t, "signal", "SUCCESS")
    /\ UNCHANGED <<tickCount, readyTaskList, tcbPriority, tcbTimeout, tcbDelayUpTo,
                   sCurrentTCB, pendSV, pendBy, nTicks>>
    /\ UNCHANGED <<waitOrder, qvars, cvars>>
    /\ UNCHANGED xvars

\* entry of wait(ticks): time = GetSystemTime(); timeout = time + ticks
wait_call(t, ticks) ==
    /\ Thread(t)
    /\ pc[t] = "user"
    /\ pc' = [pc EXCEPT ![t] = "wait_cs"]
    /\ loc' = [loc EXCEPT ![t] = [NoLoc EXCEPT !.fn = "wait", !.ticks = ticks,
                                      !.time = tickCount,
                                      !.timeout = Add32(tickCount, ticks)]]
    /\ enterTick' = [enterTick EXCEPT ![t] = nTicks]
    /\ UNCHANGED result
    /\ UNCHANGED <<kvars, lvars, svars, qvars, cvars>>
    /\ UNCHANGED xvars

\* the critical section at the top of the for loop
wait_cs(t) ==
    /\ Thread(t)
    /\ pc[t] = "wait_cs"
    /\ IF semVal > 0
       THEN /\ semVal' = 0
            /\ Return(t, "wait", "SUCCESS")
            /\ waitOrder' = Remove(waitOrder, t)
            /\ UNCHANGED <<tcbState, tcbTimeout, node, tail, semList>>
       ELSE IF loc[t].ticks = 0
       THEN /\ Return(t, "wait", "SEMAPHORE_TIMEOUT")
            /\ UNCHANGED <<tcbState, tcbTimeout, node, tail, semVal, semList, waitOrder>>
       ELSE /\ IF loc[t].isBlocked = FALSE
               THEN /\ tcbTimeout' = [tcbTimeout EXCEPT ![sCurrentTCB] = loc[t].timeout]
                    /\ tcbState' = [tcbState EXCEPT ![sCurrentTCB] = BLOCKED_BY_SEMAPHORE]
                    /\ LET r == ListInsertAtEnd(node, semList, tail, Slot(t, "wait"))
                       IN /\ node' = r.node
                          /\ semList' = r.head
                          /\ tail' = r.tail
                    /\ waitOrder' = Append(waitOrder, t)
               ELSE UNCHANGED <<tcbState, tcbTimeout, node, tail, semList, waitOrder>>
            /\ loc' = [loc EXCEPT ![t].time = tickCount, ![t].isBlocked = TRUE]
            /\ pc' = [pc EXCEPT ![t] = "wait_chk"]
            /\ UNCHANGED <<semVal, result, enterTick>>
    /\ UNCHANGED <<tickCount, readyTaskList, tcbPriority, tcbDelayUpTo,
                   sCurrentTCB, pendSV, pendBy, nTicks>>
    /\ UNCHANGED <<qvars, cvars>>
    /\ UNCHANGED xvars

\* if (time < timeout) { if (_val > 0u) ... } else ... : outside the critical section
wait_chk(t) ==
    /\ Thread(t)
    /\ pc[t] = "wait_chk"
    /\ pc' = [pc EXCEPT ![t] =
                IF ULt(loc[t].time, loc[t].timeout)
                THEN IF semVal > 0 THEN "wait_wake" ELSE "wait_cs"
                ELSE "wait_tmo"]
    /\ UNCHANGED <<loc, result, enterTick>>
    /\ UNCHANGED <<kvars, lvars, svars, qvars, cvars>>
    /\ UNCHANGED xvars

\* the waiter that saw _val > 0 pops the head of the list
wait_wake(t) ==
    /\ Thread(t)
    /\ pc[t] = "wait_wake"
    /\ IF semList # nullptr
       THEN /\ \E tmp \in SlotValues(node[semList].data) :
                  tcbState' = WakeWaiter(tcbState, tmp, BLOCKED_BY_SEMAPHORE)
            /\ LET d == ListDeleteAtBeginning(node, semList, tail)
               IN /\ node' = d.node
                  /\ semList' = d.head
                  /\ tail' = d.tail
       ELSE UNCHANGED <<tcbState, node, tail, semList>>
    /\ pc' = [pc EXCEPT ![t] = "wait_yield"]
    /\ UNCHANGED <<loc, result, enterTick>>
    /\ UNCHANGED <<tickCount, readyTaskList, tcbPriority, tcbTimeout, tcbDelayUpTo,
                   sCurrentTCB, pendSV, pendBy, nTicks>>
    /\ UNCHANGED <<semVal, waitOrder, qvars, cvars>>
    /\ UNCHANGED xvars

wait_yield(t) ==
    /\ Thread(t)
    /\ pc[t] = "wait_yield"
    /\ LET r == isHigherPrioTaskPending(tcbState, tickCount, sCurrentTCB)
       IN /\ tcbState' = r.state
          /\ pendSV' = r.ret
          /\ pendBy' = IF r.ret THEN t ELSE "none"
    /\ pc' = [pc EXCEPT ![t] = "wait_cs"]
    /\ UNCHANGED <<loc, result, enterTick>>
    /\ UNCHANGED <<tickCount, readyTaskList, tcbPriority, tcbTimeout, tcbDelayUpTo,
                   sCurrentTCB, nTicks>>
    /\ UNCHANGED <<lvars, svars, qvars, cvars>>
    /\ UNCHANGED xvars

\* the else branch: timeout
wait_tmo(t) ==
    /\ Thread(t)
    /\ pc[t] = "wait_tmo"
    /\ LET d == ListDeleteAtBeginning(node, semList, tail)
       IN /\ node' = d.node
          /\ semList' = d.head
          /\ tail' = d.tail
    /\ tcbState' = [tcbState EXCEPT ![sCurrentTCB] = READY]
    /\ Return(t, "wait", "SEMAPHORE_TIMEOUT")
    /\ waitOrder' = Remove(waitOrder, t)
    /\ UNCHANGED <<tickCount, readyTaskList, tcbPriority, tcbTimeout, tcbDelayUpTo,
                   sCurrentTCB, pendSV, pendBy, nTicks>>
    /\ UNCHANGED <<semVal, qvars, cvars>>
    /\ UNCHANGED xvars

(***************************************************************************)
(* Queue.  One queue of QCap elements; an element is one value of QItems.  *)
(* mSize is a uint32_t: Add32 and ULt keep the width.                      *)
(***************************************************************************)
QItems == {1, 2}

\* the calls are issued while the count is in range, which keeps it bounded
QueueInRange == mSize >= 0 /\ mSize <= QCap

\* Send up to and including the test `mSize == mMaxSize`, made before the
\* interrupt mask is taken
Send_chk(t, item) ==
    /\ Thread(t)
    /\ pc[t] = "user"
    /\ QueueInRange
    /\ IF mSize = QCap
       THEN Return(t, "Send", "QUEUE_FULL")
       ELSE /\ pc' = [pc EXCEPT ![t] = "Send_cs"]
            /\ loc' = [loc EXCEPT ![t] = [NoLoc EXCEPT !.fn = "Send", !.item = item]]
            /\ UNCHANGED <<result, enterTick>>
    /\ UNCHANGED <<kvars, lvars, svars, qvars, cvars>>
    /\ UNCHANGED xvars

\* the critical section of Send
Send_cs(t) ==
    /\ Thread(t)
    /\ pc[t] = "Send_cs"
    /\ IF qList # nullptr
       THEN /\ \E tmp \in SlotValues(node[qList].data) :
                  tcbState' = WakeWaiter(tcbState, tmp, BLOCKED_BY_QUEUE)
            /\ LET d == ListDeleteAtBeginning(node, qList, tail)
               IN /\ node' = d.node
                  /\ qList' = d.head
                  /\ tail' = d.tail
       ELSE UNCHANGED <<tcbState, node, tail, qList>>
    /\ mQueue' = [mQueue EXCEPT ![mRear] = loc[t].item]
    /\ mRear' = (mRear + 1) % QCap
    /\ mSize' = Add32(mSize, 1)
    /\ qModel' = Append(qModel, loc[t].item)
    /\ Return(t, "Send", "SUCCESS")
    /\ UNCHANGED mFront
    /\ UNCHANGED <<tickCount, readyTaskList, tcbPriority, tcbTimeout, tcbDelayUpTo,
                   sCurrentTCB, pendSV, pendBy, nTicks>>
    /\ UNCHANGED <<svars, cvars>>
    /\ UNCHANGED xvars

\* entry of Receive(item, timeout), up to getInterruptMask()
Receive_call(t, timeout) ==
    /\ Thread(t)
    /\ pc[t] = "user"
    /\ QueueInRange
    /\ pc' = [pc EXCEPT ![t] = "Recv_first"]
    /\ loc' = [loc EXCEPT ![t] = [NoLoc EXCEPT !.fn = "Receive", !.ticks = timeout,
                                      !.time = tickCount,
                                      !.timeout = Add32(tickCount, timeout)]]
    /\ enterTick' = [enterTick EXCEPT ![t] = nTicks]
    /\ UNCHANGED result
    /\ UNCHANGED <<kvars, lvars, svars, qvars, cvars>>
    /\ UNCHANGED xvars

\* a dequeue that leaves mFront where it is
Dequeue_frontStuck(t) ==
    /\ mFront' = mFront
    /\ mSize' = Add32(mSize, -1)
    /\ qModel' = IF qModel = <<>> THEN qModel ELSE Tail(qModel)
    /\ ReturnWith(t, "Receive", "SUCCESS", mQueue[mFront], <<>>)
    /\ UNCHANGED <<mQueue, mRear, qList>>

\* memcpy(item, mQueue + mFront); mFront = (mFront + 1) % mMaxSize; mSize--; return
Dequeue(t) ==
    /\ mFront' = (mFront + 1) % QCap
    /\ mSize' = Add32(mSize, -1)
    /\ qModel' = IF qModel = <<>> THEN qModel ELSE Tail(qModel)
    /\ ReturnWith(t, "Receive", "SUCCESS", mQueue[mFront], <<>>)
    /\ UNCHANGED <<mQueue, mRear, qList>>

\* the else branch without its test of the timeout: an empty queue blocks the
\* caller whatever timeout it passed
Recv_block_zeroBlocks(t, again) ==
    /\ IF loc[t].isBlocked = FALSE
       THEN /\ tcbTimeout' = [tcbTimeout EXCEPT ![sCurrentTCB] = loc[t].timeout]
            /\ tcbState' = [tcbState EXCEPT ![sCurrentTCB] = BLOCKED_BY_QUEUE]
            /\ LET r == ListInsertAtEnd(node, qList, tail, Slot(t, "Receive"))
               IN /\ node' = r.node
                  /\ qList' = r.head
                  /\ tail' = r.tail
       ELSE UNCHANGED <<tcbState, tcbTimeout, node, tail, qList>>
    /\ loc' = [loc EXCEPT ![t].time = tickCount, ![t].isBlocked = TRUE]
    /\ pc' = [pc EXCEPT ![t] = again]
    /\ UNCHANGED <<result, enterTick>>

\* else branch of `mSize > 0u`: timeout 0 returns, otherwise block once
Recv_block(t, again) ==
    IF loc[t].ticks = 0
    THEN /\ Return(t, "Receive", "QUEUE_TIMEOUT")
         /\ UNCHANGED <<tcbState, tcbTimeout, node, tail, qList>>
    ELSE /\ IF loc[t].isBlocked = FALSE
            THEN /\ tcbTimeout' = [tcbTimeout EXCEPT ![sCurrentTCB] = loc[t].timeout]
                 /\ tcbState' = [tcbState EXCEPT ![sCurrentTCB] = BLOCKED_BY_QUEUE]
                 /\ LET r == ListInsertAtEnd(node, qList, tail, Slot(t, "Receive"))
                    IN /\ node' = r.node
                       /\ qList' = r.head
                       /\ tail' = r.tail
            ELSE UNCHANGED <<tcbState, tcbTimeout, node, tail, qList>>
         /\ loc' = [loc EXCEPT ![t].time = tickCount, ![t].isBlocked = TRUE]
         /\ pc' = [pc EXCEPT ![t] = again]
         /\ UNCHANGED <<result, enterTick>>

\* first pass through the top of the loop: interrupts are masked
Recv_first(t) ==
    /\ Thread(t)
    /\ pc[t] = "Recv_first"
    /\ IF ULt(0, mSize)
       THEN /\ Dequeue(t)
            /\ UNCHANGED <<tcbState, tcbTimeout, node, tail>>
       ELSE /\ Recv_block(t, "Recv_chk")
            /\ UNCHANGED <<mQueue, mFront, mRear, mSize, qModel>>
    /\ UNCHANGED <<tickCount, readyTaskList, tcbPriority, tcbDelayUpTo,
                   sCurrentTCB, pendSV, pendBy, nTicks>>
    /\ UNCHANGED <<svars, cvars>>
    /\ UNCHANGED xvars

\* if (time < stimeout) { if (mSize > 0u) ... } else ...
Recv_chk(t) ==
    /\ Thread(t)
    /\ pc[t] = "Recv_chk"
    /\ pc' = [pc EXCEPT ![t] =
                IF ULt(loc[t].time, loc[t].timeout)
                THEN IF ULt(0, mSize) THEN "Recv_wake" ELSE "Recv_top"
                ELSE "Recv_tmo"]
    /\ UNCHANGED <<loc, result, enterTick>>
    /\ UNCHANGED <<kvars, lvars, svars, qvars, cvars>>
    /\ UNCHANGED xvars

Recv_wake(t) ==
    /\ Thread(t)
    /\ pc[t] = "Recv_wake"
    /\ IF qList # nullptr
       THEN /\ \E tmp \in SlotValues(node[qList].data) :
                  tcbState' = WakeWaiter(tcbState, tmp, BLOCKED_BY_QUEUE)
            /\ LET d == ListDeleteAtBeginning(node, qList, tail)
               IN /\ node' = d.node
                  /\ qList' = d.head
                  /\ tail' = d.tail
       ELSE UNCHANGED <<tcbState, node, tail, qList>>
    /\ pc' = [pc EXCEPT ![t] = "Recv_yield"]
    /\ UNCHANGED <<loc, result, enterTick>>
    /\ UNCHANGED <<tickCount, readyTaskList, tcbPriority, tcbTimeout, tcbDelayUpTo,
                   sCurrentTCB, pendSV, pendBy, nTicks>>
    /\ UNCHANGED <<mQueue, mFront, mRear, mSize, qModel, svars, cvars>>
    /\ UNCHANGED xvars

Recv_yield(t) ==
    /\ Thread(t)
    /\ pc[t] = "Recv_yield"
    /\ LET r == isHigherPrioTaskPending(tcbState, tickCount, sCurrentTCB)
       IN /\ tcbState' = r.state
          /\ pendSV' = r.ret
          /\ pendBy' = IF r.ret THEN t ELSE "none"
    /\ pc' = [pc EXCEPT ![t] = "Recv_top"]
    /\ UNCHANGED <<loc, result, enterTick>>
    /\ UNCHANGED <<tickCount, readyTaskList, tcbPriority, tcbTimeout, tcbDelayUpTo,
                   sCurrentTCB, nTicks>>
    /\ UNCHANGED <<lvars, svars, qvars, cvars>>
    /\ UNCHANGED xvars

\* later passes through the top of the loop run with interrupts enabled:
\* the test of mSize ...
Recv_top(t) ==
    /\ Thread(t)
    /\ pc[t] = "Recv_top"
    /\ loc' = [loc EXCEPT ![t].time = tickCount]
    /\ pc' = [pc EXCEPT ![t] = IF ULt(0, mSize) THEN "Recv_take" ELSE "Recv_chk"]
    /\ UNCHANGED <<result, enterTick>>
    /\ UNCHANGED <<kvars, lvars, svars, qvars, cvars>>
    /\ UNCHANGED xvars

\* ... and the removal of the element
Recv_take(t) ==
    /\ Thread(t)
    /\ pc[t] = "Recv_take"
    /\ Dequeue(t)
    /\ UNCHANGED <<kvars, lvars, svars, cvars>>
    /\ UNCHANGED xvars

Recv_tmo(t) ==
    /\ Thread(t)
    /\ pc[t] = "Recv_tmo"
    /\ LET d == ListDeleteAtBeginning(node, qList, tail)
       IN /\ node' = d.node
          /\ qList' = d.head
          /\ tail' = d.tail
    /\ tcbState' = [tcbState EXCEPT ![sCurrentTCB] = READY]
    /\ Return(t, "Receive", "QUEUE_TIMEOUT")
    /\ UNCHANGED <<tickCount, readyTaskList, tcbPriority, tcbTimeout, tcbDelayUpTo,
                   sCurrentTCB, pendSV, pendBy, nTicks>>
    /\ UNCHANGED <<mQueue, mFront, mRear, mSize, qModel, svars, cvars>>
    /\ UNCHANGED xvars

(***************************************************************************)
(* CircularBuffer.  One buffer of CBCap bytes.                             *)
(***************************************************************************)
\* the chunks the producer sends: the i-th byte of a chunk is i, so that a
\* byte stored or delivered out of place shows
Chunks == {[i \in 1..n |-> i] : n \in 0..MaxChunk}

\* a copy into the ring whose second part starts again at data[0]
CircularBuffer_write_secondFromStart(buf, head, data) ==
    LET size == Len(data)
        firstPartSize == CBCap - head
    IN IF head + size <= CBCap
       THEN [i \in DOMAIN buf |->
                IF i >= head /\ i < head + size THEN data[i - head + 1] ELSE buf[i]]
       ELSE [i \in DOMAIN buf |->
                IF i >= head THEN data[i - head + 1]
                ELSE IF i < size - firstPartSize THEN data[i + 1]
                ELSE buf[i]]

\* the copy into the ring, split in two when mHead + size crosses the end
CircularBuffer_write(buf, head, data) ==
    LET size == Len(data)
        firstPartSize == CBCap - head
    IN IF head + size <= CBCap
       THEN [i \in DOMAIN buf |->
                IF i >= head /\ i < head + size THEN data[i - head + 1] ELSE buf[i]]
       ELSE [i \in DOMAIN buf |->
                IF i >= head THEN data[i - head + 1]
                ELSE IF i < size - firstPartSize THEN data[firstPartSize + i + 1]
                ELSE buf[i]]

\* the copy out of the ring, split in two when mTail + size crosses the end
CircularBuffer_read(buf, tl, size) ==
    LET firstPartSize == CBCap - tl
    IN IF tl + size <= CBCap
       THEN [i \in 1..size |-> buf[tl + i - 1]]
       ELSE [i \in 1..size |->
                IF i <= firstPartSize THEN buf[tl + i - 1] ELSE buf[i - firstPartSize - 1]]

\* Send(data, size): one critical section
\* x % m in uint32_t
UMod32(x, m) ==
    IF x >= 0 THEN x % m ELSE ((x % m) + ((MaxInt32 % m) * 2 + 2)) % m

\* the values a byte of the buffer can take
ByteValues == 0..MaxChunk

\* Send(data, size): data stands for the array the caller passes, size for
\* the size argument.  With size beyond the array the two memcpy calls run
\* past the end of the array, and with a size for which mCurrentSize + size
\* wraps they run past the end of mBuffer as well: the copy either faults,
\* inside the masked section, or leaves whatever it has copied.
CircularBuffer_SendN(t, data, size) ==
    /\ Thread(t)
    /\ pc[t] = "user"
    /\ IF size = 0
       THEN /\ Return(t, "CB_Send", "BAD_PARAMETER")
            /\ UNCHANGED <<tcbState, node, tail, cvars, basepri>>
       ELSE IF ULt(CBCap, Add32(mCurrentSize, size))
       THEN /\ Return(t, "CB_Send", "CIRCULAR_BUFFER_FULL")
            /\ UNCHANGED <<tcbState, node, tail, cvars, basepri>>
       ELSE \/ /\ ULt(Len(data), size)
               /\ pc' = [pc EXCEPT ![t] = "HardFault"]
               /\ basepri' = MAX_SYSCALL_IRQ_PRIO
               /\ mBuffer' \in [DOMAIN mBuffer -> ByteValues]
               /\ UNCHANGED <<loc, result, enterTick>>
               /\ UNCHANGED <<tcbState, node, tail, mHead, mTail, mCurrentSize, cbList, cbModel>>
            \/ /\ IF ULt(Len(data), size)
                  THEN mBuffer' \in [DOMAIN mBuffer -> ByteValues]
                  ELSE mBuffer' = CircularBuffer_write(mBuffer, mHead, SubSeq(data, 1, size))
               /\ mHead' = UMod32(Add32(mHead, size), CBCap)
               /\ mCurrentSize' = Add32(mCurrentSize, size)
               /\ cbModel' = cbModel \o (IF ULt(Len(data), size) THEN data ELSE SubSeq(data, 1, size))
               /\ IF cbList # nullptr
                  THEN /\ \E tmp \in SlotValues(node[cbList].data) :
                             tcbState' = WakeWaiter(tcbState, tmp, BLOCKED_BY_CIRC_BUFFER)
                       /\ LET d == ListDeleteAtBeginning(node, cbList, tail)
                          IN /\ node' = d.node
                             /\ cbList' = d.head
                             /\ tail' = d.tail
                  ELSE UNCHANGED <<tcbState, node, tail, cbList>>
               /\ Return(t, "CB_Send", "SUCCESS")
               /\ UNCHANGED <<mTail, basepri>>
    /\ UNCHANGED <<tickCount, readyTaskList, tcbPriority, tcbTimeout, tcbDelayUpTo,
                   sCurrentTCB, pendSV, pendBy, nTicks>>
    /\ UNCHANGED <<svars, qvars>>
    /\ UNCHANGED <<mvars, tmvars, wakeTick, cycvars, flag, irqMask, inSection>>

\* Send with the size of the array it is given
CircularBuffer_Send(t, data) == CircularBuffer_SendN(t, data, Len(data))

\* entry of Receive(data, size, timeout)
CBRecv_call(t, size, timeout) ==
    /\ Thread(t)
    /\ pc[t] = "user"
    /\ pc' = [pc EXCEPT ![t] = "CBRecv_top"]
    /\ loc' = [loc EXCEPT ![t] = [NoLoc EXCEPT !.fn = "CB_Receive", !.ticks = timeout,
                                      !.size = size, !.time = tickCount,
                                      !.timeout = Add32(tickCount, timeout)]]
    /\ enterTick' = [enterTick EXCEPT ![t] = nTicks]
    /\ UNCHANGED result
    /\ UNCHANGED <<kvars, lvars, svars, qvars, cvars>>
    /\ UNCHANGED xvars

\* the top of the loop: one critical section on every pass
CBRecv_top(t) ==
    /\ Thread(t)
    /\ pc[t] = "CBRecv_top"
    /\ IF loc[t].size = 0
       THEN /\ Return(t, "CB_Receive", "BAD_PARAMETER")
            /\ UNCHANGED <<tcbState, tcbTimeout, node, tail, cvars>>
       ELSE IF UGe(mCurrentSize, loc[t].size)
       THEN /\ mTail' = (mTail + loc[t].size) % CBCap
            /\ mCurrentSize' = Add32(mCurrentSize, -loc[t].size)
            /\ cbModel' = SubSeq(cbModel, loc[t].size + 1, Len(cbModel))
            /\ ReturnWith(t, "CB_Receive", "SUCCESS", 0,
                          CircularBuffer_read(mBuffer, mTail, loc[t].size))
            /\ UNCHANGED <<tcbState, tcbTimeout, node, tail, mBuffer, mHead, cbList>>
       ELSE IF loc[t].ticks = 0
       THEN /\ Return(t, "CB_Receive", "CIRCULAR_BUFFER_TIMEOUT")
            /\ UNCHANGED <<tcbState, tcbTimeout, node, tail, cvars>>
       ELSE /\ IF loc[t].isBlocked = FALSE
               THEN /\ tcbTimeout' = [tcbTimeout EXCEPT ![sCurrentTCB] = loc[t].timeout]
                    /\ tcbState' = [tcbState EXCEPT ![sCurrentTCB] = BLOCKED_BY_CIRC_BUFFER]
                    /\ LET r == ListInsertAtEnd(node, cbList, tail, Slot(t, "CB_Receive"))
                       IN /\ node' = r.node
                          /\ cbList' = r.head
                          /\ tail' = r.tail
               ELSE UNCHANGED <<tcbState, tcbTimeout, node, tail, cbList>>
            /\ loc' = [loc EXCEPT ![t].time = tickCount, ![t].isBlocked = TRUE]
            /\ pc' = [pc EXCEPT ![t] = "CBRecv_chk"]
            /\ UNCHANGED <<result, enterTick>>
            /\ UNCHANGED <<mBuffer, mHead, mTail, mCurrentSize, cbModel>>
    /\ UNCHANGED <<tickCount, readyTaskList, tcbPriority, tcbDelayUpTo,
                   sCurrentTCB, pendSV, pendBy, nTicks>>
    /\ UNCHANGED <<svars, qvars>>
    /\ UNCHANGED xvars

\* if (time < stimeout) { if (mCurrentSize >= size) ... } else ...
CBRecv_chk(t) ==
    /\ Thread(t)
    /\ pc[t] = "CBRecv_chk"
    /\ pc' = [pc EXCEPT ![t] =
                IF ULt(loc[t].time, loc[t].timeout)
                THEN IF UGe(mCurrentSize, loc[t].size) THEN "CBRecv_wake" ELSE "CBRecv_top"
                ELSE "CBRecv_tmo"]
    /\ UNCHANGED <<loc, result, enterTick>>
    /\ UNCHANGED <<kvars, lvars, svars, qvars, cvars>>
    /\ UNCHANGED xvars

CBRecv_wake(t) ==
    /\ Thread(t)
    /\ pc[t] = "CBRecv_wake"
    /\ IF cbList # nullptr
       THEN /\ \E tmp \in SlotValues(node[cbList].data) :
                  tcbState' = WakeWaiter(tcbState, tmp, BLOCKED_BY_CIRC_BUFFER)
            /\ LET d == ListDeleteAtBeginning(node, cbList, tail)
               IN /\ node' = d.node
                  /\ cbList' = d.head
                  /\ tail' = d.tail
       ELSE UNCHANGED <<tcbState, node, tail, cbList>>
    /\ pc' = [pc EXCEPT ![t] = "CBRecv_yield"]
    /\ UNCHANGED <<loc, result, enterTick>>
    /\ UNCHANGED <<tickCount, readyTaskList, tcbPriority, tcbTimeout, tcbDelayUpTo,
                   sCurrentTCB, pendSV, pendBy, nTicks>>
    /\ UNCHANGED <<mBuffer, mHead, mTail, mCurrentSize, cbModel, svars, qvars>>
    /\ UNCHANGED xvars

CBRecv_yield(t) ==
    /\ Thread(t)
    /\ pc[t] = "CBRecv_yield"
    /\ LET r == isHigherPrioTaskPending(tcbState, tickCount, sCurrentTCB)
       IN /\ tcbState' = r.state
          /\ pendSV' = r.ret
          /\ pendBy' = IF r.ret THEN t ELSE "none"
    /\ pc' = [pc EXCEPT ![t] = "CBRecv_top"]
    /\ UNCHANGED <<loc, result, enterTick>>
    /\ UNCHANGED <<tickCount, readyTaskList, tcbPriority, tcbTimeout, tcbDelayUpTo,
                   sCurrentTCB, nTicks>>
    /\ UNCHANGED <<lvars, svars, qvars, cvars>>
    /\ UNCHANGED xvars

CBRecv_tmo(t) ==
    /\ Thread(t)
    /\ pc[t] = "CBRecv_tmo"
    /\ LET d == ListDeleteAtBeginning(node, cbList, tail)
       IN /\ node' = d.node
          /\ cbList' = d.head
          /\ tail' = d.tail
    /\ tcbState' = [tcbState EXCEPT ![sCurrentTCB] = READY]
    /\ Return(t, "CB_Receive", "CIRCULAR_BUFFER_TIMEOUT")
    /\ UNCHANGED <<tickCount, readyTaskList, tcbPriority, tcbTimeout, tcbDelayUpTo,
                   sCurrentTCB, pendSV, pendBy, nTicks>>
    /\ UNCHANGED <<mBuffer, mHead, mTail, mCurrentSize, cbModel, svars, qvars>>
    /\ UNCHANGED xvars

(***************************************************************************)
(* Task::Create, as far as the allocator goes: the TCB, then the stack,    *)
(* then (in ListInsertAtEnd) the node of the ready list.  A failed stack   *)
(* allocation gives the TCB back; a failed node allocation is not noticed: *)
(* ListInsertAtEnd returns without linking and Create returns Success.     *)
(***************************************************************************)
\* where a task's memory lies: tcb, node and ram are what the allocator
\* returned, stack, stackSize and stackTop are the fields of the TCB
NoMem == [tcb |-> nullptr, stack |-> nullptr, node |-> nullptr, live |-> FALSE,
          stackSize |-> 0, stackTop |-> nullptr, ram |-> nullptr]

\* address & ~7u
AlignDown8(a) == a - (a % 8)

\* the words initStack pushes: xPSR, PC, LR, R12, R3-R0, R11-R4, EXC_RETURN, PSPLIM
FrameWords == 18

\* initStack returns the address of the last word it has pushed
initStack(stackTop) == stackTop - 4 * FrameWords

\* a Create that leaves the TCB allocated when the stack allocation fails
Create_allocations_keepTCB(h, stackDepth) ==
    IF h = <<>>
    THEN [code |-> "MEMORY_NOT_INITIALIZED", heap |-> h, mem |-> NoMem]
    ELSE LET tmpTCB == HeapAllocator_allocate(h, SizeofTCB)
         IN IF tmpTCB.ptr = nullptr
            THEN [code |-> "NO_MEMORY", heap |-> h, mem |-> NoMem]
            ELSE LET tmpStack == HeapAllocator_allocate(tmpTCB.heap, stackDepth * 4)
                 IN IF tmpStack.ptr = nullptr
                    THEN [code |-> "NO_MEMORY", heap |-> tmpTCB.heap, mem |-> NoMem]
                    ELSE LET newNode == HeapAllocator_allocate(tmpStack.heap, SizeofNode)
                         IN [code |-> "SUCCESS", heap |-> newNode.heap,
                             mem |-> [tcb |-> tmpTCB.ptr, stack |-> tmpStack.ptr,
                                      node |-> newNode.ptr, live |-> TRUE,
                                      stackSize |-> stackDepth,
                                      stackTop |-> initStack(AlignDown8(
                                          tmpStack.ptr + 4 * (stackDepth - 1))),
                                      ram |-> nullptr]]

Create_allocations(h, stackDepth) ==
    IF h = <<>>
    THEN [code |-> "MEMORY_NOT_INITIALIZED", heap |-> h, mem |-> NoMem]
    ELSE LET tmpTCB == HeapAllocator_allocate(h, SizeofTCB)
         IN IF tmpTCB.ptr = nullptr
            THEN [code |-> "NO_MEMORY", heap |-> h, mem |-> NoMem]
            ELSE LET tmpStack == HeapAllocator_allocate(tmpTCB.heap, stackDepth * 4)
                 IN IF tmpStack.ptr = nullptr
                    THEN [code |-> "NO_MEMORY",
                          heap |-> HeapAllocator_deallocate(tmpTCB.heap, tmpTCB.ptr),
                          mem |-> NoMem]
                    ELSE LET newNode == HeapAllocator_allocate(tmpStack.heap, SizeofNode)
                         IN [code |-> "SUCCESS", heap |-> newNode.heap,
                             mem |-> [tcb |-> tmpTCB.ptr, stack |-> tmpStack.ptr,
                                      node |-> newNode.ptr, live |-> TRUE,
                                      stackSize |-> stackDepth,
                                      stackTop |-> initStack(AlignDown8(
                                          tmpStack.ptr + 4 * (stackDepth - 1))),
                                      ram |-> nullptr]]

StackDepthOf(t) ==
    IF t = TimerSVC THEN TimerStackDepth ELSE IF t = IDLE THEN IdleStackDepth
    ELSE UserStackDepth

\* the allocator and the task memory after the tasks of `names` were created
\* one after the other, starting from b
RECURSIVE CreateAll(_, _)
CreateAll(names, b) ==
    IF names = <<>>
    THEN b
    ELSE LET r == Create_allocations(b.heap, StackDepthOf(Head(names)))
         IN CreateAll(Tail(names),
                      [heap |-> r.heap, mem |-> [b.mem EXCEPT ![Head(names)] = r.mem]])

\* Config::InitMem, the application's Create calls and the two of Start
Boot(created) ==
    CreateAll(created \o <<TimerSVC, IDLE>>,
              [heap |-> HeapAllocator_init(PoolSize), mem |-> [t \in Tasks |-> NoMem]])

(***************************************************************************)
(* Task::Create, Delete, Pause, Resume called by a running task.  A task   *)
(* handle is the address of a TCB; a task name of the model stands for one *)
(* TCB address, so a TCB allocated where a deleted task's TCB lay carries  *)
(* that task's name, and the handle the application still holds for the    *)
(* deleted task is a handle of the new one.                                *)
(***************************************************************************)
InReadyList(h) == \E i \in 1..Len(readyTaskList) : readyTaskList[i] = h

\* ListDeleteAtPosition(readyTaskList, pos) for the position of h
ListDeleteTask(list, h) == SelectSeq(list, LAMBDA x : x # h)

\* mem.deallocate of the ready-list node, the stack and the TCB of h
FreeTask(h) ==
    HeapAllocator_deallocate(
        HeapAllocator_deallocate(
            HeapAllocator_deallocate(heap, tcbMem[h].node), tcbMem[h].stack),
        tcbMem[h].tcb)

\* the name that stands for the TCB address ptr: the task that lay there, or
\* else a name not used so far
NameOf(n, ptr) ==
    /\ n \in UserTasks
    /\ ~tcbMem[n].live
    /\ \/ tcbMem[n].tcb = ptr
       \/ tcbMem[n].tcb = nullptr /\ \A m \in Tasks : tcbMem[m].tcb # ptr

\* what Create does to the allocator, the TCB and the ready list, r being the
\* outcome of its allocations; on failure n plays no part
Create_link(n, prio, r) ==
    /\ heap' = r.heap
    /\ IF r.code = "SUCCESS"
       THEN /\ NameOf(n, r.mem.tcb)
            /\ tcbMem' = [tcbMem EXCEPT ![n] = r.mem]
            /\ tcbPriority' = [tcbPriority EXCEPT ![n] =
                                  IF prio >= MAX_TASK_PRIORITY
                                  THEN MAX_TASK_PRIORITY - 1 ELSE prio]
            /\ tcbState' = [tcbState EXCEPT ![n] = READY]
            /\ readyTaskList' = IF r.mem.node # nullptr
                                THEN Append(readyTaskList, n) ELSE readyTaskList
            /\ enterCycles' = [enterCycles EXCEPT ![n] = 0]
            /\ exitCycles' = [exitCycles EXCEPT ![n] = 0]
       ELSE /\ n = "T1"
            /\ UNCHANGED <<tcbMem, tcbPriority, tcbState, readyTaskList>>
            /\ UNCHANGED <<enterCycles, exitCycles>>

Task_Create(t, n, prio, stackDepth) ==
    /\ Thread(t)
    /\ pc[t] = "user"
    /\ LET r == Create_allocations(heap, stackDepth)
       IN /\ Create_link(n, prio, r)
          /\ IF r.code = "SUCCESS"
             THEN /\ pc' = [pc EXCEPT ![t] = Home(t), ![n] = Home(n)]
                  /\ loc' = [loc EXCEPT ![t] = NoLoc, ![n] = NoLoc]
                  /\ result' = [result EXCEPT
                                   ![t] = [NoResult EXCEPT !.op = "Create", !.code = r.code],
                                   ![n] = NoResult]
                  /\ enterTick' = [enterTick EXCEPT ![t] = 0, ![n] = 0]
             ELSE Return(t, "Create", r.code)
    /\ UNCHANGED <<tickCount, tcbTimeout, tcbDelayUpTo, sCurrentTCB, pendSV, pendBy, nTicks>>
    /\ UNCHANGED <<lvars, svars, qvars, cvars, bootResult, tmvars, wakeTick, uvars>>
    /\ UNCHANGED <<CYCCNT, executionTime>>

\* Config::InitMem(pool, size), called by main before Scheduler::Start
Config_InitMem(size) ==
    /\ sCurrentTCB = NoTask
    /\ heap = <<>>
    /\ IF size = 0
       THEN /\ bootResult' = "NO_MEMORY"
            /\ UNCHANGED heap
       ELSE /\ bootResult' = "SUCCESS"
            /\ heap' = HeapAllocator_init(size)
    /\ UNCHANGED <<kvars, lvars, svars, qvars, cvars, tvars, tcbMem, tmvars, wakeTick, cycvars, uvars>>

\* BASEPRI when Create or CreateTaskForBinModule returns `code`: prevMask is
\* restored at the end of the function, which the return of
\* MEMORY_NOT_INITIALIZED does not reach
Create_mask(code) ==
    IF code = "MEMORY_NOT_INITIALIZED" THEN MAX_SYSCALL_IRQ_PRIO ELSE basepri

\* Task::Create called by main before Scheduler::Start
Create_beforeStart(n, prio, stackDepth) ==
    /\ sCurrentTCB = NoTask
    /\ LET r == Create_allocations(heap, stackDepth)
       IN /\ Create_link(n, prio, r)
          /\ bootResult' = r.code
          /\ basepri' = Create_mask(r.code)
    /\ UNCHANGED <<tickCount, tcbTimeout, tcbDelayUpTo, sCurrentTCB, pendSV, pendBy, nTicks>>
    /\ UNCHANGED <<lvars, svars, qvars, cvars, tvars, tmvars, wakeTick>>
    /\ UNCHANGED <<flag, irqMask, inSection, CYCCNT, executionTime>>

(***************************************************************************)
(* CreateTaskForBinModule.  bin is what the call reads from the header of  *)
(* the image: whether the descriptor carries MODULE_MAGIC, its image_size, *)
(* and the section and stack fields of ProgramInfoBin; NoBin is nullptr.   *)
(***************************************************************************)
NoBin == [null |-> TRUE, magic |-> FALSE, image_size |-> 0,
          section_data_start_addr |-> 0, section_data_size |-> 0,
          section_bss_size |-> 0, stackPointer |-> 0, msp_limit |-> 0]

\* imgSize: the descriptor's, else data offset + data size, else 4 KB
imgSizeOf(bin) ==
    LET imgSize == IF bin.magic THEN bin.image_size
                   ELSE bin.section_data_start_addr + bin.section_data_size
    IN IF imgSize = 0 THEN DEFAULT_MODULE_LEN ELSE imgSize

stackSizeOf(bin) ==
    IF bin.stackPointer > bin.msp_limit THEN bin.stackPointer - bin.msp_limit ELSE 0

\* ramSize is computed before stackSize gets its default
ramSizeOf(bin) ==
    LET ramSize == bin.section_data_size + bin.section_bss_size + stackSizeOf(bin)
        stackSize == IF stackSizeOf(bin) = 0 THEN DEFAULT_STACK_SIZE ELSE stackSizeOf(bin)
    IN IF ramSize = 0 THEN stackSize ELSE ramSize

\* a loader that keeps the image when the RAM region cannot be allocated
BinModule_allocations_keepImage(h, bin) ==
    IF bin.null
    THEN [code |-> "BAD_PARAMETER", heap |-> h, mem |-> NoMem]
    ELSE IF h = <<>>
    THEN [code |-> "MEMORY_NOT_INITIALIZED", heap |-> h, mem |-> NoMem]
    ELSE LET tmpTCB == HeapAllocator_allocate(h, SizeofTCB)
         IN IF tmpTCB.ptr = nullptr
            THEN [code |-> "NO_MEMORY", heap |-> h, mem |-> NoMem]
            ELSE LET binary == HeapAllocator_allocate(tmpTCB.heap, imgSizeOf(bin))
                 IN IF binary.ptr = nullptr
                    THEN [code |-> "NO_MEMORY",
                          heap |-> HeapAllocator_deallocate(tmpTCB.heap, tmpTCB.ptr),
                          mem |-> NoMem]
                    ELSE LET stk == HeapAllocator_allocate(binary.heap, ramSizeOf(bin))
                         IN IF stk.ptr = nullptr
                            THEN [code |-> "NO_MEMORY",
                                  heap |-> HeapAllocator_deallocate(binary.heap, tmpTCB.ptr),
                                  mem |-> NoMem]
                            ELSE LET newNode == HeapAllocator_allocate(stk.heap, SizeofNode)
                                     stackSize == IF stackSizeOf(bin) = 0
                                                  THEN DEFAULT_STACK_SIZE ELSE stackSizeOf(bin)
                                 IN [code |-> "SUCCESS", heap |-> newNode.heap,
                                     mem |-> [tcb |-> tmpTCB.ptr,
                                              stack |-> stk.ptr + ramSizeOf(bin) - stackSize,
                                              node |-> newNode.ptr, live |-> TRUE,
                                              stackSize |-> stackSize \div 4,
                                              stackTop |-> initStack(AlignDown8(
                                                  stk.ptr + ramSizeOf(bin))),
                                              ram |-> stk.ptr]]

\* the allocations of CreateTaskForBinModule: the TCB, the copy of the image,
\* the RAM region (.data, .bss, stack), and the node of ListInsertAtEnd;
\* tmpTCB->stack is new_msplim, the stack's lower end inside the RAM region
BinModule_allocations(h, bin) ==
    IF bin.null
    THEN [code |-> "BAD_PARAMETER", heap |-> h, mem |-> NoMem]
    ELSE IF h = <<>>
    THEN [code |-> "MEMORY_NOT_INITIALIZED", heap |-> h, mem |-> NoMem]
    ELSE LET tmpTCB == HeapAllocator_allocate(h, SizeofTCB)
         IN IF tmpTCB.ptr = nullptr
            THEN [code |-> "NO_MEMORY", heap |-> h, mem |-> NoMem]
            ELSE LET binary == HeapAllocator_allocate(tmpTCB.heap, imgSizeOf(bin))
                 IN IF binary.ptr = nullptr
                    THEN [code |-> "NO_MEMORY",
                          heap |-> HeapAllocator_deallocate(tmpTCB.heap, tmpTCB.ptr),
                          mem |-> NoMem]
                    ELSE LET stk == HeapAllocator_allocate(binary.heap, ramSizeOf(bin))
                         IN IF stk.ptr = nullptr
                            THEN [code |-> "NO_MEMORY",
                                  heap |-> HeapAllocator_deallocate(
                                               HeapAllocator_deallocate(binary.heap, binary.ptr),
                                               tmpTCB.ptr),
                                  mem |-> NoMem]
                            ELSE LET newNode == HeapAllocator_allocate(stk.heap, SizeofNode)
                                     stackSize == IF stackSizeOf(bin) = 0
                                                  THEN DEFAULT_STACK_SIZE ELSE stackSizeOf(bin)
                                 IN [code |-> "SUCCESS", heap |-> newNode.heap,
                                     mem |-> [tcb |-> tmpTCB.ptr,
                                              stack |-> stk.ptr + ramSizeOf(bin) - stackSize,
                                              node |-> newNode.ptr, live |-> TRUE,
                                              stackSize |-> stackSize \div 4,
                                              stackTop |-> initStack(AlignDown8(
                                                  stk.ptr + ramSizeOf(bin))),
                                              ram |-> stk.ptr]]

\* CreateTaskForBinModule called by main before Scheduler::Start; unlike
\* Create it sets timeout and delayUpTo of the new TCB
CreateTaskForBinModule(n, bin, prio) ==
    /\ sCurrentTCB = NoTask
    /\ LET r == BinModule_allocations(heap, bin)
       IN /\ Create_link(n, prio, r)
          /\ bootResult' = r.code
          /\ basepri' = Create_mask(r.code)
          /\ IF r.code = "SUCCESS"
             THEN /\ tcbTimeout' = [tcbTimeout EXCEPT ![n] = 0]
                  /\ tcbDelayUpTo' = [tcbDelayUpTo EXCEPT ![n] = 0]
             ELSE UNCHANGED <<tcbTimeout, tcbDelayUpTo>>
    /\ UNCHANGED <<tickCount, sCurrentTCB, pendSV, pendBy, nTicks>>
    /\ UNCHANGED <<lvars, svars, qvars, cvars, tvars, tmvars, wakeTick>>
    /\ UNCHANGED <<flag, irqMask, inSection, CYCCNT, executionTime>>

\* Delete(TaskHandle *handle).  tmpHandle->stack is read before the list is
\* searched: for a TCB that was freed this reads freed memory, which holds
\* the old pointer or whatever was stored there since (stackIsNull).
Task_Delete(t, h, stackIsNull) ==
    /\ Thread(t)
    /\ pc[t] = "user"
    /\ (h # NoTask /\ tcbMem[h].live) => ~stackIsNull
    /\ h = NoTask => stackIsNull
    /\ IF h = NoTask \/ stackIsNull
       THEN /\ Return(t, "Delete", "BAD_PARAMETER")
            /\ UNCHANGED <<readyTaskList, heap, tcbMem>>
       ELSE IF ~InReadyList(h)
       THEN /\ Return(t, "Delete", "TASK_NOT_FOUND")
            /\ UNCHANGED <<readyTaskList, heap, tcbMem>>
       ELSE /\ readyTaskList' = ListDeleteTask(readyTaskList, h)
            /\ heap' = FreeTask(h)
            /\ tcbMem' = [tcbMem EXCEPT ![h].live = FALSE]
            /\ Return(t, "Delete", "SUCCESS")
    /\ pendSV' = TRUE
    /\ pendBy' = t
    /\ UNCHANGED <<tickCount, tcbState, tcbPriority, tcbTimeout, tcbDelayUpTo,
                   sCurrentTCB, nTicks>>
    /\ UNCHANGED <<lvars, svars, qvars, cvars, bootResult, tmvars, wakeTick, cycvars, uvars>>

\* Delete(void): the running task deletes itself
Task_Delete_self(t) ==
    /\ Thread(t)
    /\ pc[t] = "user"
    /\ IF ~InReadyList(sCurrentTCB)
       THEN /\ Return(t, "Delete", "TASK_NOT_FOUND")
            /\ UNCHANGED <<readyTaskList, heap, tcbMem>>
       ELSE /\ readyTaskList' = ListDeleteTask(readyTaskList, sCurrentTCB)
            /\ heap' = FreeTask(sCurrentTCB)
            /\ tcbMem' = [tcbMem EXCEPT ![sCurrentTCB].live = FALSE]
            /\ Return(t, "Delete", "SUCCESS")
    /\ pendSV' = TRUE
    /\ pendBy' = t
    /\ UNCHANGED <<tickCount, tcbState, tcbPriority, tcbTimeout, tcbDelayUpTo,
                   sCurrentTCB, nTicks>>
    /\ UNCHANGED <<lvars, svars, qvars, cvars, bootResult, tmvars, wakeTick, cycvars, uvars>>

Task_Pause(t, h) ==
    /\ Thread(t)
    /\ pc[t] = "user"
    /\ IF h = NoTask
       THEN /\ Return(t, "Pause", "BAD_PARAMETER")
            /\ UNCHANGED <<tcbState, pendSV, pendBy>>
       ELSE /\ tcbState' = [tcbState EXCEPT ![h] = PAUSED]
            /\ pendSV' = (h = sCurrentTCB)
            /\ pendBy' = IF h = sCurrentTCB THEN t ELSE "none"
            /\ Return(t, "Pause", "SUCCESS")
    /\ UNCHANGED <<tickCount, readyTaskList, tcbPriority, tcbTimeout, tcbDelayUpTo,
                   sCurrentTCB, nTicks>>
    /\ UNCHANGED <<lvars, svars, qvars, cvars, xvars>>

Task_Resume(t, h) ==
    /\ Thread(t)
    /\ pc[t] = "user"
    /\ IF h = NoTask
       THEN /\ Return(t, "Resume", "BAD_PARAMETER")
            /\ UNCHANGED tcbState
       ELSE /\ tcbState' = IF tcbState[h] = PAUSED
                           THEN [tcbState EXCEPT ![h] = READY] ELSE tcbState
            /\ Return(t, "Resume", "SUCCESS")
    /\ UNCHANGED <<tickCount, readyTaskList, tcbPriority, tcbTimeout, tcbDelayUpTo,
                   sCurrentTCB, pendSV, pendBy, nTicks>>
    /\ UNCHANGED <<lvars, svars, qvars, cvars, xvars>>

(***************************************************************************)
(* The state in which Scheduler::Start dispatches the first task: the      *)
(* tasks created before Start, then TimerSVC and IDLE, all READY, and      *)
(* sCurrentTCB = readyTaskList->data.                                      *)
(***************************************************************************)
UserPrios == {1, MAX_TASK_PRIORITY - 1}

\* Scheduler::Start, up to the first task running: cyc0 is what DWT->CYCCNT
\* reads when RestoreCtxOfTheFirstTask stamps enterCycles of the first task
Scheduler_StartAt(created, tick0, cyc0) ==
    /\ tickCount = tick0
    /\ readyTaskList = created \o <<TimerSVC, IDLE>>
    /\ tcbState = [t \in Tasks |-> READY]
    /\ tcbPriority \in [Tasks -> UserPrios \cup {0, MAX_TASK_PRIORITY - 1}]
    /\ tcbPriority[TimerSVC] = MAX_TASK_PRIORITY - 1
    /\ tcbPriority[IDLE] = 0
    /\ \A t \in UserTasks \cup {ThirdTask} : tcbPriority[t] \in UserPrios
    /\ \A t \in UserTasks \cup {ThirdTask} :
          (\A i \in 1..Len(created) : created[i] # t) => tcbPriority[t] = 1
    /\ tcbTimeout = [t \in Tasks |-> 0]
    /\ tcbDelayUpTo = [t \in Tasks |-> 0]
    /\ sCurrentTCB = readyTaskList[1]
    /\ pendSV = FALSE
    /\ pendBy = "none"
    /\ nTicks = 0
    /\ node = [n \in Nodes |-> FreeNode]
    /\ tail = nullptr
    /\ semVal \in {0, 1}
    /\ semList = nullptr
    /\ waitOrder = <<>>
    /\ mQueue = [i \in 0..(QCap - 1) |-> 0]
    /\ mFront = 0
    /\ mRear = 0
    /\ mSize = 0
    /\ qList = nullptr
    /\ qModel = <<>>
    /\ mBuffer = [i \in 0..(CBCap - 1) |-> 0]
    /\ mHead = 0
    /\ mTail = 0
    /\ mCurrentSize = 0
    /\ cbList = nullptr
    /\ cbModel = <<>>
    /\ pc = [t \in Tasks |-> Home(t)]
    /\ loc = [t \in Tasks |-> NoLoc]
    /\ result = [t \in Tasks |-> NoResult]
    /\ enterTick = [t \in Tasks |-> 0]
    /\ wakeTick = [t \in Tasks |-> 0]
    /\ CYCCNT = cyc0
    /\ enterCycles = [t \in Tasks |-> IF t = readyTaskList[1] THEN cyc0 ELSE 0]
    /\ exitCycles = [t \in Tasks |-> 0]
    /\ executionTime = [t \in Tasks |-> U64(0)]
    /\ heap = Boot(created).heap
    /\ tcbMem = Boot(created).mem
    /\ bootResult = "none"
    /\ sTimerList = <<>>
    /\ timer = [tm \in TimerIds |-> NoTimer]
    /\ fired = [tm \in TimerIds |-> 0]
    /\ startTick = [tm \in TimerIds |-> 0]
    /\ flag = FALSE
    /\ irqMask = 0
    /\ basepri = 0
    /\ inSection = {}

\* the cycle counter is not enabled by the kernel: it reads 0 unless the
\* application enabled it
Scheduler_Start(created, tick0) == Scheduler_StartAt(created, tick0, 0)

\* the arguments the tasks pass: zero, the shortest, and the longest
Timeouts == {0, 1, MaxArg}
Delays == {0, 1}

Kernel ==
    \/ SysTick_Handler
    \/ PendSV_Handler
    \/ idleTask(IDLE)
    \/ TimerISR(TimerSVC)
    \/ \E t \in Tasks : Delay_cs(t) \/ Delay_pend(t)

SemaphoreCalls ==
    \E t \in UserTasks :
        \/ BinarySemaphore_signal(t)
        \/ \E ticks \in Timeouts : wait_call(t, ticks)
        \/ wait_cs(t) \/ wait_chk(t) \/ wait_wake(t) \/ wait_yield(t) \/ wait_tmo(t)

TaskCalls ==
    \E t \in UserTasks :
        \/ \E ticks \in Delays : Delay_call(t, ticks)
        \/ Yield(t)

Init == Scheduler_Start(<<"T1", "T2">>, 0)

Next == Kernel \/ TaskCalls \/ SemaphoreCalls

Spec == Init /\ [][Next]_vars


(***************************************************************************)
(* Three tasks, the semaphore and the queue: T1 and T3 wait on the         *)
(* semaphore, T1 and T2 use the queue, T2 signals.  The timeouts are       *)
(* longer than the run, so that no call reaches its timeout branch.        *)
(***************************************************************************)
SharedCalls ==
    \/ BinarySemaphore_signal("T2")
    \/ \E t \in {"T2", ThirdTask} : Delay_call(t, 1)
    \/ \E t \in {"T1", ThirdTask} :
          \/ wait_call(t, MaxArg)
          \/ wait_cs(t) \/ wait_chk(t) \/ wait_wake(t) \/ wait_yield(t)
    \/ \E t \in {"T1", "T2"} :
          \/ \E item \in QItems : Send_chk(t, item)
          \/ Send_cs(t)
          \/ Receive_call(t, MaxArg)
          \/ Recv_first(t) \/ Recv_chk(t) \/ Recv_top(t)
          \/ Recv_wake(t) \/ Recv_yield(t) \/ Recv_take(t)

InitShared ==
    /\ Scheduler_Start(<<"T1", "T2", ThirdTask>>, 0)
    /\ semVal = 0
    /\ \A t \in UserTasks \cup {ThirdTask} : tcbPriority[t] = 1

NextShared == Kernel \/ SharedCalls

SpecShared == InitShared /\ [][NextShared]_vars

(***************************************************************************)
(* Two tasks sharing the queue.                                            *)
(***************************************************************************)
QueueCalls(users, timeouts) ==
    \E t \in users :
        \/ \E item \in QItems : Send_chk(t, item)
        \/ Send_cs(t)
        \/ \E timeout \in timeouts : Receive_call(t, timeout)
        \/ Recv_first(t) \/ Recv_chk(t) \/ Recv_top(t) \/ Recv_tmo(t)

\* the steps of Receive that need a sender running between two of its steps
QueueWoken(users) ==
    \E t \in users : Recv_wake(t) \/ Recv_yield(t) \/ Recv_take(t)

DelayCalls ==
    \E t \in UserTasks : Delay_call(t, 1)

InitQ == Scheduler_Start(<<"T1", "T2">>, 0) /\ semVal = 0

NextQ == Kernel \/ DelayCalls \/ QueueCalls(UserTasks, Delays) \/ QueueWoken(UserTasks)

SpecQ == InitQ /\ [][NextQ]_vars

(***************************************************************************)
(* One task using the queue: no sender can run between two steps of its    *)
(* Receive, so the steps of QueueWoken are never enabled.                  *)
(***************************************************************************)
InitQ1 == Scheduler_Start(<<"T1">>, 0) /\ semVal = 0

NextQ1 == Kernel \/ QueueCalls({"T1"}, Timeouts)

SpecQ1 == InitQ1 /\ [][NextQ1]_vars


(***************************************************************************)
(* T1 takes from the circular buffer what T2 puts into it; T2 may sleep a  *)
(* tick between two chunks.                                                *)
(***************************************************************************)
BufferCalls(producers, consumers) ==
    \/ \E t \in producers, data \in Chunks : CircularBuffer_Send(t, data)
    \/ \E t \in consumers :
        \/ \E size \in 0..MaxChunk, timeout \in Timeouts : CBRecv_call(t, size, timeout)
        \/ CBRecv_top(t) \/ CBRecv_chk(t) \/ CBRecv_wake(t) \/ CBRecv_yield(t)
        \/ CBRecv_tmo(t)

InitCB == Scheduler_Start(<<"T1", "T2">>, 0) /\ semVal = 0

NextCB == Kernel \/ Delay_call("T2", 1) \/ BufferCalls({"T2"}, {"T1"})

SpecCB == InitCB /\ [][NextCB]_vars


(***************************************************************************)
(* The semaphore workload 2^32 - 2 ticks after the start: T1, created with *)
(* the highest priority and first in the ready list, has been running      *)
(* between kernel calls ever since (switchCtx keeps choosing it), the      *)
(* others are still READY.  nTicks counts the ticks from here on.          *)
(***************************************************************************)
InitWrap ==
    /\ tickCount = -2
    /\ readyTaskList = <<"T1", "T2", TimerSVC, IDLE>>
    /\ tcbState = [t \in Tasks |-> IF t = "T1" THEN RUNNING ELSE READY]
    /\ tcbPriority = [t \in Tasks |-> IF t = IDLE THEN 0 ELSE MAX_TASK_PRIORITY - 1]
    /\ tcbTimeout = [t \in Tasks |-> 0]
    /\ tcbDelayUpTo = [t \in Tasks |-> 0]
    /\ sCurrentTCB = "T1"
    /\ pendSV = FALSE
    /\ pendBy = "none"
    /\ nTicks = 0
    /\ node = [n \in Nodes |-> FreeNode]
    /\ tail = nullptr
    /\ semVal \in {0, 1}
    /\ semList = nullptr
    /\ waitOrder = <<>>
    /\ mQueue = [i \in 0..(QCap - 1) |-> 0]
    /\ mFront = 0
    /\ mRear = 0
    /\ mSize = 0
    /\ qList = nullptr
    /\ qModel = <<>>
    /\ mBuffer = [i \in 0..(CBCap - 1) |-> 0]
    /\ mHead = 0
    /\ mTail = 0
    /\ mCurrentSize = 0
    /\ cbList = nullptr
    /\ cbModel = <<>>
    /\ pc = [t \in Tasks |-> Home(t)]
    /\ loc = [t \in Tasks |-> NoLoc]
    /\ result = [t \in Tasks |-> NoResult]
    /\ enterTick = [t \in Tasks |-> 0]
    /\ wakeTick = [t \in Tasks |-> 0]
    /\ CYCCNT = 0
    /\ enterCycles = [t \in Tasks |-> 0]
    /\ exitCycles = [t \in Tasks |-> 0]
    /\ executionTime = [t \in Tasks |-> U64(0)]
    /\ heap = Boot(<<"T1", "T2">>).heap
    /\ tcbMem = Boot(<<"T1", "T2">>).mem
    /\ bootResult = "none"
    /\ sTimerList = <<>>
    /\ timer = [tm \in TimerIds |-> NoTimer]
    /\ fired = [tm \in TimerIds |-> 0]
    /\ startTick = [tm \in TimerIds |-> 0]
    /\ flag = FALSE
    /\ irqMask = 0
    /\ basepri = 0
    /\ inSection = {}

SpecWrap == InitWrap /\ [][Next]_vars


(***************************************************************************)
(* Polling: T1 calls every Wait / Receive with timeout 0, on all three     *)
(* primitives, which T2 signals and fills; both may sleep a tick.          *)
(***************************************************************************)
PollCalls(pollers, producers) ==
    \/ \E t \in producers :
        \/ BinarySemaphore_signal(t)
        \/ Send_chk(t, 1) \/ Send_cs(t)
        \/ CircularBuffer_Send(t, <<1>>)
    \/ \E t \in pollers :
        \/ wait_call(t, 0) \/ wait_cs(t)
        \/ Receive_call(t, 0) \/ Recv_first(t)
        \/ \E size \in 0..MaxChunk : CBRecv_call(t, size, 0)
        \/ CBRecv_top(t)

\* the poller was created with the higher priority: it runs first and takes
\* the processor back from the producer at the tick that ends its sleep
InitPoll ==
    /\ Scheduler_Start(<<"T1", "T2">>, 0)
    /\ semVal = 0
    /\ tcbPriority["T1"] = MAX_TASK_PRIORITY - 1
    /\ tcbPriority["T2"] = 1

NextPoll == Kernel \/ DelayCalls \/ PollCalls({"T1"}, {"T2"})

SpecPoll == InitPoll /\ [][NextPoll]_vars


(***************************************************************************)
(* Task management: the tasks create, delete, pause and resume tasks and   *)
(* sleep; the pool has no room for a third user task, so that a Create     *)
(* succeeds only in the hole a Delete has left.                            *)
(***************************************************************************)
TaskAdmin ==
    \E t \in UserTasks :
        \/ \E h \in UserTasks :
              \/ Task_Pause(t, h)
              \/ Task_Resume(t, h)
              \/ \E stackIsNull \in BOOLEAN : Task_Delete(t, h, stackIsNull)
        \/ Task_Delete_self(t)
        \/ \E n \in UserTasks, prio \in UserPrios : Task_Create(t, n, prio, UserStackDepth)

InitTask ==
    /\ Scheduler_Start(<<"T1", "T2">>, 0)
    /\ semVal = 0
    /\ tcbPriority["T1"] = 1
    /\ tcbPriority["T2"] = MAX_TASK_PRIORITY - 1

NextTask == Kernel \/ DelayCalls \/ TaskAdmin

SpecTask == InitTask /\ [][NextTask]_vars


(***************************************************************************)
(* Before Scheduler::Start: main initialises the allocator, or forgets to, *)
(* and creates tasks until the pool is used up.  No task runs yet.         *)
(***************************************************************************)
BootPools == {0, NoNodePool, OneTaskPool, TightPool, TwoTaskPool, PoolSize}
BootPrios == UserPrios \cup {MAX_TASK_PRIORITY}
StackDepths == {UserStackDepth, BigStackDepth}

InitBoot ==
    /\ tickCount = 0
    /\ readyTaskList = <<>>
    /\ tcbState = [t \in Tasks |-> READY]
    /\ tcbPriority = [t \in Tasks |-> IF t = IDLE THEN 0
                                       ELSE IF t = TimerSVC THEN MAX_TASK_PRIORITY - 1 ELSE 1]
    /\ tcbTimeout = [t \in Tasks |-> 0]
    /\ tcbDelayUpTo = [t \in Tasks |-> 0]
    /\ sCurrentTCB = NoTask
    /\ pendSV = FALSE
    /\ pendBy = "none"
    /\ nTicks = 0
    /\ node = [n \in Nodes |-> FreeNode]
    /\ tail = nullptr
    /\ semVal = 0
    /\ semList = nullptr
    /\ waitOrder = <<>>
    /\ mQueue = [i \in 0..(QCap - 1) |-> 0]
    /\ mFront = 0
    /\ mRear = 0
    /\ mSize = 0
    /\ qList = nullptr
    /\ qModel = <<>>
    /\ mBuffer = [i \in 0..(CBCap - 1) |-> 0]
    /\ mHead = 0
    /\ mTail = 0
    /\ mCurrentSize = 0
    /\ cbList = nullptr
    /\ cbModel = <<>>
    /\ pc = [t \in Tasks |-> Home(t)]
    /\ loc = [t \in Tasks |-> NoLoc]
    /\ result = [t \in Tasks |-> NoResult]
    /\ enterTick = [t \in Tasks |-> 0]
    /\ wakeTick = [t \in Tasks |-> 0]
    /\ CYCCNT = 0
    /\ enterCycles = [t \in Tasks |-> 0]
    /\ exitCycles = [t \in Tasks |-> 0]
    /\ executionTime = [t \in Tasks |-> U64(0)]
    /\ heap = <<>>
    /\ tcbMem = [t \in Tasks |-> NoMem]
    /\ bootResult = "none"
    /\ sTimerList = <<>>
    /\ timer = [tm \in TimerIds |-> NoTimer]
    /\ fired = [tm \in TimerIds |-> 0]
    /\ startTick = [tm \in TimerIds |-> 0]
    /\ flag = FALSE
    /\ irqMask = 0
    /\ basepri = 0
    /\ inSection = {}

NextBoot ==
    \/ \E size \in BootPools : Config_InitMem(size)
    \/ \E n \in UserTasks, prio \in BootPrios, stackDepth \in StackDepths :
           Create_beforeStart(n, prio, stackDepth)

SpecBoot == InitBoot /\ [][NextBoot]_vars


(***************************************************************************)
(* Before Scheduler::Start, with binary modules: main creates tasks from a *)
(* small module with a descriptor, from one without descriptor and with    *)
(* empty sections (every size takes its default), or passes no image.      *)
(***************************************************************************)
SmallModule == [null |-> FALSE, magic |-> TRUE, image_size |-> SmallImage,
                section_data_start_addr |-> 0, section_data_size |-> SmallData,
                section_bss_size |-> SmallBss, stackPointer |-> SmallStack,
                msp_limit |-> 0]
DefaultModule == [NoBin EXCEPT !.null = FALSE]
\* a module with .data and .bss whose header gives no stack
NoStackModule == [SmallModule EXCEPT !.section_data_size = BigData, !.stackPointer = 0]

BinImages == {NoBin, SmallModule, DefaultModule, NoStackModule}
ModulePools == {0, TCBOnlyPool, ImageOnlyPool, SmallModulePool, BigModulePool}

NextModule ==
    \/ \E size \in ModulePools : Config_InitMem(size)
    \/ \E n \in UserTasks, prio \in BootPrios :
           \/ Create_beforeStart(n, prio, UserStackDepth)
           \/ \E bin \in BinImages : CreateTaskForBinModule(n, bin, prio)

SpecModule == InitBoot /\ [][NextModule]_vars


(***************************************************************************)
(* Software timers: T1, the only user task, initialises the two timers,    *)
(* starts and stops them and sleeps; the timer-service task serves them.   *)
(***************************************************************************)
TimerTimeouts == {1, MaxTick}

TimerCalls ==
    \/ TimerISR_node(TimerSVC)
    \/ \E tm \in TimerIds :
        \/ \E timeoutTicks \in TimerTimeouts, autoReload \in BOOLEAN :
               Timer_Init("T1", tm, timeoutTicks, autoReload)
        \/ Timer_Start("T1", tm)
        \/ Timer_Stop("T1", tm)
    \/ Start_set("T1")

InitTimer == Scheduler_Start(<<"T1">>, 0) /\ semVal = 0

NextTimer == Kernel \/ Delay_call("T1", 1) \/ TimerCalls

SpecTimer == InitTimer /\ [][NextTimer]_vars


(***************************************************************************)
(* The mutex: both tasks lock and unlock it, and sleep and yield inside    *)
(* and outside the section; a task does not lock the mutex it holds.       *)
(***************************************************************************)
MutexCalls ==
    \E t \in UserTasks :
        \/ t \notin inSection /\ Mutex_Lock(t)
        \/ Lock_spin(t)
        \/ Mutex_Unlock(t)
        \/ Yield(t)

InitMutex == Scheduler_Start(<<"T1", "T2">>, 0) /\ semVal = 0

NextMutex == Kernel \/ DelayCalls \/ MutexCalls

SpecMutex == InitMutex /\ [][NextMutex]_vars


(***************************************************************************)
(* Pause and Resume against the waits: T1 waits for the semaphore and for  *)
(* the queue with a deadline, or sleeps; T2 signals, sends, and both pause *)
(* and resume each other.                                                  *)
(***************************************************************************)
PauseCalls(waiters, wakers) ==
    \/ \E t \in UserTasks, h \in UserTasks : Task_Pause(t, h) \/ Task_Resume(t, h)
    \/ \E t \in wakers :
        \/ BinarySemaphore_signal(t)
        \/ Send_chk(t, 1) \/ Send_cs(t)
    \/ \E t \in waiters :
        \/ \E ticks \in {2, MaxArg} : wait_call(t, ticks)
        \/ wait_cs(t) \/ wait_chk(t) \/ wait_wake(t) \/ wait_yield(t) \/ wait_tmo(t)
        \/ \E timeout \in {2, MaxArg} : Receive_call(t, timeout)
        \/ Recv_first(t) \/ Recv_chk(t) \/ Recv_top(t) \/ Recv_tmo(t)
        \/ Recv_wake(t) \/ Recv_yield(t) \/ Recv_take(t)

InitPause ==
    /\ Scheduler_Start(<<"T1", "T2">>, 0)
    /\ semVal = 0
    /\ tcbPriority["T1"] = MAX_TASK_PRIORITY - 1
    /\ tcbPriority["T2"] = 1

NextPause == Kernel \/ Delay_call("T1", 1) \/ PauseCalls({"T1"}, {"T2"})

SpecPause == InitPause /\ [][NextPause]_vars


(***************************************************************************)
(* Properties.                                                             *)
(***************************************************************************)
ListIndex == 1..Len(readyTaskList)
Prio(i) == tcbPriority[readyTaskList[i]]

\* what switchCtx, run now, treats as READY: a READY task, the outgoing
\* RUNNING task, a DELAYED task whose wake tick has come, a BLOCKED task
\* whose deadline has come
ReadyAtSwitch(t) ==
    \/ tcbState[t] \in {READY, RUNNING}
    \/ tcbState[t] = DELAYED /\ UGe(tickCount, tcbDelayUpTo[t])
    \/ tcbState[t] \in Blocked /\ UGe(tickCount, tcbTimeout[t])

\* a step of PendSV_Handler: the only step that clears ICSR.PENDSVSET
ContextSwitch == pendSV /\ ~pendSV'

\* C1: at every run of switchCtx the task made current has the highest
\* priority among the tasks READY after promotion (the outgoing RUNNING task
\* included), and among several of that priority it is the first in the
\* ready list.
C1_HighestPriorityFirstInList ==
    [][ContextSwitch =>
         LET R == {i \in ListIndex : ReadyAtSwitch(readyTaskList[i])}
         IN R # {} =>
              \E i \in R :
                  /\ sCurrentTCB' = readyTaskList[i]
                  /\ \A j \in R : Prio(j) <= Prio(i) /\ (Prio(j) = Prio(i) => i <= j)]_vars

\* switchCtx has chosen between READY tasks of the same priority: the task
\* it made RUNNING has a READY task of its priority behind it in the list
C1_TieDecided ==
    /\ ~pendSV
    /\ tcbState[sCurrentTCB] = RUNNING
    /\ \E i, j \in ListIndex :
          /\ readyTaskList[i] = sCurrentTCB
          /\ i < j
          /\ tcbState[readyTaskList[j]] = READY
          /\ Prio(j) = Prio(i)

\* C2: a RUNNING task is switched out only when it delays, yields, blocks,
\* pauses or deletes itself, or when a task of strictly higher priority is
\* READY: a context switch that finds the current task still RUNNING and
\* replaces it finds a READY task of strictly higher priority.
C2_SwitchedOutOnlyByHigherPriority ==
    [][(ContextSwitch /\ tcbState[sCurrentTCB] = RUNNING /\ sCurrentTCB' # sCurrentTCB) =>
         \E i \in ListIndex :
             /\ ReadyAtSwitch(readyTaskList[i])
             /\ tcbPriority[readyTaskList[i]] > tcbPriority[sCurrentTCB]]_vars

\* a step of signal that finds the counter 0
SignalStep == semVal = 0 /\ \E t \in UserTasks : BinarySemaphore_signal(t)

\* C3: tasks blocked on the semaphore at the same time are made READY by
\* successive signals in the order in which they blocked: a signal that
\* finds the counter 0 makes READY the task that blocked first, if that
\* task is still blocked, and no other task.
C3_FirstBlockedFirstWoken ==
    [][SignalStep =>
         /\ (waitOrder # <<>> /\ tcbState[Head(waitOrder)] = BLOCKED_BY_SEMAPHORE)
                => tcbState'[Head(waitOrder)] = READY
         /\ \A w \in Tasks :
                (tcbState[w] = BLOCKED_BY_SEMAPHORE /\ tcbState'[w] = READY)
                    => (waitOrder # <<>> /\ w = Head(waitOrder))]_vars

\* C4: a wait with timeout ticks > 0 entered at tick n0 does not take its
\* timeout exit before tick n0 + ticks.
C4_NoTimeoutBeforeDeadline ==
    \A t \in UserTasks :
        pc[t] = "wait_tmo" => nTicks - enterTick[t] >= loc[t].ticks

\* C5: whenever a task executes in thread mode, the current TCB is RUNNING
\* and it is the only TCB that is.
C5_ExactlyOneRunning ==
    ~pendSV =>
        /\ tcbState[sCurrentTCB] = RUNNING
        /\ \A i \in ListIndex :
              tcbState[readyTaskList[i]] = RUNNING => readyTaskList[i] = sCurrentTCB

\* the TCBs the entries of a waiter list point to: an entry points to the
\* local of a blocking call, which holds the caller's TCB while the call lasts
Waiting(head) ==
    LET ns == ListNodes(node, head)
    IN SelectSeq([i \in 1..Len(ns) |-> node[ns[i]].data], SlotLive)

NoDuplicates(seq) == \A i, j \in 1..Len(seq) : i # j => seq[i].tcb # seq[j].tcb

\* C6: no TCB is twice in the ready list, and no TCB is on more than one
\* waiter list or twice on the same one.
C6_NoDuplicateEntries ==
    /\ \A i, j \in ListIndex : i # j => readyTaskList[i] # readyTaskList[j]
    /\ NoDuplicates(Waiting(semList) \o Waiting(qList) \o Waiting(cbList))

\* C7: the count of the queue stays between 0 and its capacity.
C7_CountWithinCapacity == mSize >= 0 /\ mSize <= QCap

\* C8: the queue delivers what was sent, in the order sent: a Send that
\* finds room succeeds, a Receive on a queue that holds an element returns
\* the oldest element sent and not yet received, and only a Send on a full
\* queue or a Receive on an empty one fails.
C8_QueueRoundTrip ==
    [][/\ mSize' = mSize - 1 =>
              /\ qModel # <<>>
              /\ \E t \in UserTasks :
                    /\ pc[t] \in {"Recv_first", "Recv_take"}
                    /\ pc'[t] = "user"
                    /\ result'[t] = [op |-> "Receive", code |-> "SUCCESS",
                                     item |-> Head(qModel), data |-> <<>>]
       /\ \A t \in UserTasks :
              /\ (pc[t] = "user" /\ pc'[t] = "user" /\ result'[t].code = "QUEUE_FULL"
                    /\ result'[t] # result[t])
                      => Len(qModel) = QCap
              /\ (pc[t] = "Send_cs" /\ pc'[t] = "user")
                      => (result'[t].code = "SUCCESS" /\ Len(qModel') <= QCap)
              /\ (pc[t] \in {"Recv_first", "Recv_tmo"} /\ pc'[t] = "user"
                    /\ result'[t].code = "QUEUE_TIMEOUT")
                      => qModel = <<>>]_vars

\* a Receive has delivered an element and moved mFront round the end of the
\* ring to index 0, with a later element still queued
C8_FrontWrapped ==
    /\ result["T1"].op = "Receive"
    /\ result["T1"].code = "SUCCESS"
    /\ pc["T1"] = "user"
    /\ mFront = 0
    /\ mSize > 0
    /\ mRear # 0

\* the ring holds exactly the bytes sent and not yet received, oldest at mTail
RingHoldsModel ==
    /\ mCurrentSize >= 0
    /\ mCurrentSize <= CBCap
    /\ mHead = (mTail + mCurrentSize) % CBCap
    /\ Len(cbModel) = mCurrentSize
    /\ \A i \in 1..Len(cbModel) : cbModel[i] = mBuffer[(mTail + i - 1) % CBCap]

\* C9: the bytes received from the circular buffer are, in order, the bytes
\* sent, whatever the chunk sizes and also when a chunk is split across the
\* end of the ring; 0 <= current size <= capacity and
\* head = (tail + current size) mod capacity hold throughout.
C9_BufferRoundTrip ==
    /\ RingHoldsModel
    /\ [][/\ RingHoldsModel'
          /\ mCurrentSize' < mCurrentSize =>
                \E t \in UserTasks :
                    /\ pc[t] = "CBRecv_top"
                    /\ pc'[t] = "user"
                    /\ result'[t].code = "SUCCESS"
                    /\ result'[t].data = SubSeq(cbModel, 1, loc[t].size)
                    /\ mCurrentSize' = mCurrentSize - loc[t].size]_vars

\* a Receive has delivered a chunk that lay across the end of the ring
C9_SplitChunkReceived ==
    /\ result["T1"].op = "CB_Receive"
    /\ result["T1"].code = "SUCCESS"
    /\ pc["T1"] = "user"
    /\ mTail >= 1
    /\ mTail < Len(result["T1"].data)

C11_ZeroTimeoutReturnsAtOnce ==
    [][\A t \in UserTasks :
         /\ (wait_cs(t) /\ loc[t].ticks = 0 /\ semVal = 0) =>
                /\ pc'[t] = "user"
                /\ result'[t].op = "wait" /\ result'[t].code = "SEMAPHORE_TIMEOUT"
                /\ UNCHANGED <<tcbState, node, tail, semVal, semList>>
         /\ (Recv_first(t) /\ loc[t].ticks = 0 /\ mSize = 0) =>
                /\ pc'[t] = "user"
                /\ result'[t].op = "Receive" /\ result'[t].code = "QUEUE_TIMEOUT"
                /\ UNCHANGED <<tcbState, node, tail, qList, mQueue, mFront, mRear, mSize>>
         /\ (CBRecv_top(t) /\ loc[t].ticks = 0 /\ loc[t].size > 0
                 /\ ULt(mCurrentSize, loc[t].size)) =>
                /\ pc'[t] = "user"
                /\ result'[t].op = "CB_Receive"
                /\ result'[t].code = "CIRCULAR_BUFFER_TIMEOUT"
                /\ UNCHANGED <<tcbState, node, tail, cbList, mBuffer, mHead, mTail,
                               mCurrentSize>>]_vars

\* the poller has asked the buffer for more bytes than it holds, with the
\* queue empty and the counter 0: it got the Timeout code, it is not blocked
\* and no waiter list has an entry
C11_PolledEmpty ==
    /\ result["T1"].op = "CB_Receive" /\ result["T1"].code = "CIRCULAR_BUFFER_TIMEOUT"
    /\ pc["T1"] = "user"
    /\ mCurrentSize = 1
    /\ mSize = 0
    /\ semVal = 0
    /\ qList = nullptr /\ cbList = nullptr /\ semList = nullptr
    /\ tcbState["T1"] \notin Blocked

\* C12: a task that calls Delay(ticks), ticks > 0, at tick n0 becomes DELAYED
\* with wake tick n0 + ticks; while DELAYED it is neither made READY nor
\* selected before tick n0 + ticks; and a scheduling decision taken at a tick
\* n >= n0 + ticks finds it DELAYED no longer than that decision.
C12_DelayedUntilWakeTick ==
    [][\A t \in Tasks :
         /\ Delay_cs(t) =>
                /\ tcbState'[t] = DELAYED
                /\ tcbDelayUpTo'[t] = Add32(tickCount, loc[t].ticks)
                /\ wakeTick'[t] = nTicks + loc[t].ticks
         /\ (tcbState[t] = DELAYED /\ tcbState'[t] \in {READY, RUNNING})
                => nTicks' >= wakeTick[t]
         /\ (ContextSwitch /\ tcbState[t] = DELAYED /\ sCurrentTCB' = t)
                => nTicks >= wakeTick[t]
         /\ (ContextSwitch /\ tcbState[t] = DELAYED /\ nTicks >= wakeTick[t])
                => tcbState'[t] \in {READY, RUNNING}]_vars

\* a step of SysTick_Handler: the only step that counts a tick
Tick == nTicks' = nTicks + 1

\* C13 as the code has it: when a READY task has a higher priority than the
\* running task, the next tick pends PendSV, and the context switch that
\* follows makes current a task whose priority is at least that of every
\* task then READY: the task that became READY, or another task of equal
\* or higher priority, runs by the end of that tick.
C13_HigherPriorityRunsAfterTick ==
    [][/\ (Tick /\ \E i \in ListIndex :
                      /\ tcbState'[readyTaskList[i]] = READY
                      /\ Prio(i) > tcbPriority[sCurrentTCB]) => pendSV'
       /\ ContextSwitch =>
              \A i \in ListIndex :
                  ReadyAtSwitch(readyTaskList[i]) => Prio(i) <= tcbPriority[sCurrentTCB']]_vars

\* the task of low priority has resumed the paused task of high priority,
\* and the tick after that has made the resumed task the running task
C13_ResumedTaskRuns ==
    /\ result["T1"].op = "Resume"
    /\ result["T2"].op = "Pause"
    /\ tcbPriority["T1"] < tcbPriority["T2"]
    /\ sCurrentTCB = "T2"
    /\ tcbState["T2"] = RUNNING
    /\ tcbState["T1"] = READY
    /\ pendBy = "none"
    /\ ~pendSV
    /\ nTicks >= 1

\* C13 as stated: the context switch of the tick makes current the very
\* task of higher priority that was READY, or a task of even higher
\* priority.
C13_ThatTaskRuns ==
    [][(ContextSwitch /\ pendBy = "SysTick") =>
         \A i \in ListIndex :
             (tcbState[readyTaskList[i]] = READY /\ Prio(i) > tcbPriority[sCurrentTCB])
                 => \/ sCurrentTCB' = readyTaskList[i]
                    \/ tcbPriority[sCurrentTCB'] > Prio(i)]_vars

C17_PausedUntilResumed ==
    [][/\ \A h \in Tasks :
              (tcbState[h] = PAUSED /\ tcbState'[h] # PAUSED)
                  => \E t \in UserTasks : Task_Resume(t, h)
       /\ ContextSwitch => /\ tcbState[sCurrentTCB'] # PAUSED
                            /\ tcbState'[sCurrentTCB'] = RUNNING
       /\ \A t \in UserTasks, h \in UserTasks :
              (Task_Resume(t, h) /\ tcbState[h] # PAUSED) => tcbState' = tcbState]_vars

\* T1 was paused while it waited for the semaphore with a deadline of two
\* ticks; T2 has signalled since and the deadline has passed: T1 is PAUSED
C17_PausedAcrossSignalAndExpiry ==
    /\ tcbState["T1"] = PAUSED
    /\ pc["T1"] = "wait_chk"
    /\ loc["T1"].timeout = 2
    /\ result["T2"].op = "signal"
    /\ result["T2"].code = "SUCCESS"
    /\ semVal = 1
    /\ nTicks = MaxTick
    /\ ~pendSV
    /\ sCurrentTCB # "T1"

CreateFailed == {"NO_MEMORY", "MEMORY_NOT_INITIALIZED"}

\* C16: a Create that returns NoMemory or MemoryNotInitialized leaves the
\* ready list and every TCB as they were, and the allocator's live
\* allocations are those before the call.
C16_FailedCreateLeavesNothing ==
    [][\A n \in UserTasks, prio \in BootPrios, stackDepth \in StackDepths :
          (Create_beforeStart(n, prio, stackDepth) /\ bootResult' \in CreateFailed)
              => /\ readyTaskList' = readyTaskList
                 /\ tcbMem' = tcbMem
                 /\ tcbState' = tcbState
                 /\ LiveAllocations(heap') = LiveAllocations(heap)]_vars

\* a Create has just failed for its stack after its TCB had been allocated:
\* one task is linked, and the pool still has room for a TCB
C16_StackAllocationFailed ==
    /\ bootResult = "NO_MEMORY"
    /\ Len(readyTaskList) = 1
    /\ HeapAllocator_allocate(heap, SizeofTCB).ptr # nullptr
    /\ Cardinality(LiveAllocations(heap)) = 3

\* C18: Start on an active timer returns TimerAlreadyActive and changes no
\* timer; Start on an inactive timer goes on to set elapsed to 0 and the
\* active flag of that timer, still inactive then, and returns Success.
C18_StartOnlyWhenInactive ==
    [][/\ \A tm \in TimerIds :
              Timer_Start("T1", tm) =>
                  /\ timer' = timer
                  /\ IF timer[tm].isActive
                     THEN /\ result'["T1"].op = "Start"
                          /\ result'["T1"].code = "TIMER_ALREADY_ACTIVE"
                     ELSE pc'["T1"] = "Start_set" /\ loc'["T1"].tm = tm
       /\ Start_set("T1") =>
              /\ ~timer[loc["T1"].tm].isActive
              /\ timer'[loc["T1"].tm].elapsedTicks = 0
              /\ timer'[loc["T1"].tm].isActive
              /\ \A tm \in TimerIds \ {loc["T1"].tm} : timer'[tm] = timer[tm]
              /\ result'["T1"].code = "SUCCESS"]_vars

\* Start was called on tm1, the only timer there is, while it was active
\* with one tick of two elapsed: it returned TimerAlreadyActive
C18_StartedTwice ==
    /\ result["T1"].op = "Start"
    /\ result["T1"].code = "TIMER_ALREADY_ACTIVE"
    /\ ~timer["tm2"].init
    /\ timer["tm1"].isActive
    /\ timer["tm1"].timeoutTicks = 2
    /\ timer["tm1"].elapsedTicks = 1

\* C19: Stop on an active timer returns Success, clears the active flag and
\* sets elapsed to 0; Stop on an inactive timer returns TimerAlreadyStopped
\* and changes nothing.
C19_StopStopsActiveTimer ==
    [][\A tm \in TimerIds :
          Timer_Stop("T1", tm) =>
              IF timer[tm].isActive
              THEN /\ result'["T1"].code = "SUCCESS"
                   /\ ~timer'[tm].isActive
                   /\ timer'[tm].elapsedTicks = 0
              ELSE /\ result'["T1"].code = "TIMER_ALREADY_STOPPED"
                   /\ timer' = timer]_vars

\* the timer-service task has made its pass of the current tick and sleeps
\* until the next one
TimerServed ==
    /\ tcbState[TimerSVC] = DELAYED
    /\ pc[TimerSVC] = "TimerISR"
    /\ wakeTick[TimerSVC] = nTicks + 1

\* C20: T ticks after its Start an active auto-reload timer of timeout N
\* has had its callback run floor(T / N) times; a one-shot timer is active
\* with no callback run before N ticks have passed, and inactive with its
\* callback run once from then on.  (Read when the timer-service task has
\* made its pass of the tick.)
C20_CallbackEveryNTicks ==
    TimerServed =>
        \A tm \in TimerIds :
            LET T == nTicks - startTick[tm]
                N == timer[tm].timeoutTicks
            IN IF timer[tm].autoReload
               THEN timer[tm].isActive => fired[tm] = T \div N
               ELSE /\ timer[tm].isActive => (fired[tm] = 0 /\ T < N)
                    /\ fired[tm] > 0 => (fired[tm] = 1 /\ ~timer[tm].isActive /\ T >= N)

ModuleFailed == {"BAD_PARAMETER", "NO_MEMORY", "MEMORY_NOT_INITIALIZED"}

\* C21: a CreateTaskForBinModule that fails leaves the ready list and every
\* TCB as they were, and the live allocations of the allocator are those
\* before the call.
C21_FailedModuleLeavesNothing ==
    [][\A n \in UserTasks, bin \in BinImages, prio \in BootPrios :
          (CreateTaskForBinModule(n, bin, prio) /\ bootResult' \in ModuleFailed)
              => /\ readyTaskList' = readyTaskList
                 /\ tcbMem' = tcbMem
                 /\ tcbState' = tcbState
                 /\ LiveAllocations(heap') = LiveAllocations(heap)]_vars

\* the last call failed for the RAM region of the small module after the
\* TCB and the image had been allocated: the pool has room for both again
C21_RamAllocationFailed ==
    /\ bootResult = "NO_MEMORY"
    /\ heap # <<>>
    /\ LiveAllocations(heap) = {}
    /\ LET tmpTCB == HeapAllocator_allocate(heap, SizeofTCB)
           binary == HeapAllocator_allocate(tmpTCB.heap, SmallImage)
       IN /\ binary.ptr # nullptr
          /\ HeapAllocator_allocate(binary.heap, SmallData + SmallBss + SmallStack).ptr = nullptr

\* C22: at most one task is between its Lock and its Unlock, no other task
\* runs meanwhile, and a task that spins in Lock finds the flag clear, so
\* its Lock returns at the first test.
C22_MutualExclusion ==
    /\ Cardinality(inSection) <= 1
    /\ flag = (inSection # {})
    /\ inSection # {} => (sCurrentTCB \in inSection /\ Masked)
    /\ \A t \in UserTasks : pc[t] = "Lock_spin" => (~flag /\ sCurrentTCB = t /\ Masked)

\* T1 holds the mutex, has called Delay inside the section and is DELAYED
\* with PendSV pending, and T2, of higher priority, is READY: T1 still runs
C22_HolderKeepsProcessor ==
    /\ inSection = {"T1"}
    /\ pendSV
    /\ tcbState["T1"] = DELAYED
    /\ tcbState["T2"] = READY
    /\ tcbPriority["T2"] > tcbPriority["T1"]
    /\ sCurrentTCB = "T1"
    /\ pc["T1"] = "user"
    /\ result["T1"].op = "Delay"


\* the tasks whose entries are linked from a waiter list, in list order
RECURSIVE WaitersOf(_, _)
WaitersOf(nd, n) ==
    IF n = nullptr THEN <<>> ELSE <<nd[n].data.tcb>> \o WaitersOf(nd, nd[n].next)

\* C23: the step in which a blocking wait/Receive returns its timeout code
\* removes the caller's own entry from the waiter list of the primitive and
\* nothing else: the entries of the other tasks stay, in their order, and
\* the caller is READY or RUNNING.
C23_TimeoutRemovesOwnEntry ==
    [][\A t \in UserTasks :
          /\ wait_tmo(t) =>
                /\ WaitersOf(node', semList') = Remove(WaitersOf(node, semList), t)
                /\ tcbState'[t] \in {READY, RUNNING}
          /\ Recv_tmo(t) =>
                /\ WaitersOf(node', qList') = Remove(WaitersOf(node, qList), t)
                /\ tcbState'[t] \in {READY, RUNNING}
          /\ CBRecv_tmo(t) =>
                /\ WaitersOf(node', cbList') = Remove(WaitersOf(node, cbList), t)
                /\ tcbState'[t] \in {READY, RUNNING}]_vars


\* the tasks that have an entry on the waiter list a blocked state belongs to
WaitingFor(st, nd, sl, ql, cl) ==
    LET w == IF st = BLOCKED_BY_SEMAPHORE THEN WaitersOf(nd, sl)
             ELSE IF st = BLOCKED_BY_QUEUE THEN WaitersOf(nd, ql)
             ELSE WaitersOf(nd, cl)
    IN {w[i] : i \in 1..Len(w)}

\* C24: the step of a blocking wait/Receive that blocks the caller sets the
\* deadline to the tick of the call plus the timeout (the local `timeout`),
\* enqueues the caller and pends PendSV; and a caller in a BLOCKED_* state
\* executes no step of its code.
C24_BlockedCallerStops ==
    [][\A t \in UserTasks :
          /\ (tcbState[t] \notin Blocked /\ tcbState'[t] \in Blocked) =>
                /\ tcbTimeout'[t] = loc[t].timeout
                /\ t \in WaitingFor(tcbState'[t], node', semList', qList', cbList')
                /\ pendSV'
          /\ tcbState[t] \in Blocked => (pc'[t] = pc[t] /\ loc'[t] = loc[t])]_vars


\* C25: a signal or Send whose step makes READY a blocked waiter of a
\* priority strictly above the caller's pends PendSV in that step, and so the
\* caller's next step comes after the waiter has been switched in.
C25_WakeHigherPendsPendSV ==
    [][\A t \in UserTasks, w \in UserTasks :
          ( /\ BinarySemaphore_signal(t) \/ Send_cs(t)
                  \/ \E data \in Chunks : CircularBuffer_Send(t, data)
            /\ tcbState[w] \in Blocked
            /\ tcbState'[w] = READY
            /\ tcbPriority[w] > tcbPriority[t] )
          => pendSV']_vars


\* C26: a tick adds one to the tick counter, makes READY every DELAYED task
\* whose wake tick and every BLOCKED_* task whose deadline has passed, and
\* pends PendSV exactly when some READY task then has a priority strictly
\* above that of the running task.
C26_TickPromotesAndPends ==
    [][SysTick_Handler =>
          /\ tickCount' = Add32(tickCount, 1)
          /\ \A i \in 1..Len(readyTaskList) :
                LET t == readyTaskList[i] IN
                \/ tcbState[t] = DELAYED /\ UGe(tickCount', tcbDelayUpTo[t])
                \/ tcbState[t] \in Blocked /\ UGe(tickCount', tcbTimeout[t])
                => tcbState'[t] = READY
          /\ pendSV' <=> \E i \in 1..Len(readyTaskList) :
                            /\ tcbState'[readyTaskList[i]] = READY
                            /\ tcbPriority[readyTaskList[i]] > tcbPriority[sCurrentTCB]]_vars


\* the oldest task inside wait() that is still BLOCKED_BY_SEMAPHORE
OldestBlocked ==
    LET w == SelectSeq(waitOrder, LAMBDA t : tcbState[t] = BLOCKED_BY_SEMAPHORE)
    IN IF w = <<>> THEN NoTask ELSE Head(w)

\* C27: with waiters on the semaphore and on the queue, the step that blocks
\* a task on one of them appends it to that waiter list and leaves the other
\* list as it was; a signal leaves the queue's waiters on their list and
\* blocked and wakes the oldest blocked waiter of the semaphore; a Send
\* leaves the semaphore's waiters on their list and blocked.
C27_WaiterListsSeparate ==
    [][/\ \A t \in Tasks :
            /\ (tcbState[t] # BLOCKED_BY_SEMAPHORE /\ tcbState'[t] = BLOCKED_BY_SEMAPHORE) =>
                  /\ WaitersOf(node', semList') = Append(WaitersOf(node, semList), t)
                  /\ WaitersOf(node', qList') = WaitersOf(node, qList)
            /\ (tcbState[t] # BLOCKED_BY_QUEUE /\ tcbState'[t] = BLOCKED_BY_QUEUE) =>
                  /\ WaitersOf(node', qList') = Append(WaitersOf(node, qList), t)
                  /\ WaitersOf(node', semList') = WaitersOf(node, semList)
       /\ \A t \in Tasks :
            /\ BinarySemaphore_signal(t) =>
                  /\ WaitersOf(node', qList') = WaitersOf(node, qList)
                  /\ \A w \in Tasks : tcbState[w] = BLOCKED_BY_QUEUE
                                         => tcbState'[w] = BLOCKED_BY_QUEUE
                  /\ (semVal = 0 /\ OldestBlocked # NoTask)
                         => tcbState'[OldestBlocked] = READY
            /\ Send_cs(t) =>
                  /\ WaitersOf(node', semList') = WaitersOf(node, semList)
                  /\ \A w \in Tasks : tcbState[w] = BLOCKED_BY_SEMAPHORE
                                         => tcbState'[w] = BLOCKED_BY_SEMAPHORE]_vars


\* the tasks that have an entry on some waiter list
AllWaiters ==
    LET w == WaitersOf(node, semList) \o WaitersOf(node, qList) \o WaitersOf(node, cbList)
    IN {w[i] : i \in 1..Len(w)}

\* C28: no kernel step uses a freed TCB: when PendSV runs switchCtx, the
\* TCB sCurrentTCB points to has not been freed, and no waiter list holds an
\* entry of a task whose TCB has been freed.
C28_NoFreedTCBInUse ==
    [][/\ PendSV_Handler => tcbMem[sCurrentTCB].live
       /\ \A w \in AllWaiters : tcbMem[w].live]_vars


\* task w blocked inside the call f and has been made READY before its deadline
WokenWaiter(w, f) ==
    /\ loc[w].fn = f
    /\ loc[w].isBlocked
    /\ tcbState[w] \notin Blocked
    /\ ULt(tickCount, tcbTimeout[w])

\* C29: while a waiter woken by a signal (a Send) has not yet returned from
\* its wait (Receive), no task that never blocked in its own call takes the
\* counter (the item) with Success.
C29_NoBarging ==
    [][\A t \in UserTasks, f \in {"wait", "Receive"} :
          ( /\ loc[t].fn = f
            /\ ~loc[t].isBlocked
            /\ pc'[t] = "user"
            /\ result'[t].op = f
            /\ result'[t].code = "SUCCESS" )
          => ~\E w \in UserTasks \ {t} : WokenWaiter(w, f)]_vars


\* task t has blocked inside a wait/Receive, what it asks for is still not
\* there, and its deadline has not passed
StillWaiting(t) ==
    /\ loc[t].isBlocked
    /\ ULt(tickCount, loc[t].timeout)
    /\ \/ loc[t].fn = "wait" /\ semVal = 0
       \/ loc[t].fn = "Receive" /\ mSize = 0
       \/ loc[t].fn = "CB_Receive" /\ ULt(mCurrentSize, loc[t].size)

\* C30: whenever PendSV selects the next task, every task that is still
\* waiting inside a blocking wait/Receive is in a BLOCKED_* state and has its
\* entry on the waiter list of its primitive.
C30_WaiterStaysBlocked ==
    [][PendSV_Handler =>
          \A t \in UserTasks :
              StillWaiting(t) =>
                  /\ tcbState[t] \in Blocked
                  /\ t \in WaitingFor(tcbState[t], node, semList, qList, cbList)]_vars


\* C31: with two tasks sending and receiving, every Receive that returns
\* Success delivers the oldest element sent and not yet delivered (so none
\* is delivered twice and none is passed over), and no Send that returns
\* Success stores an element in a slot whose element is not yet delivered.
C31_EachElementDeliveredOnce ==
    [][\A t \in UserTasks :
          /\ ( /\ pc[t] \in {"Recv_first", "Recv_take"}
               /\ pc'[t] = "user"
               /\ result'[t].code = "SUCCESS" )
             => /\ qModel # <<>>
                /\ result'[t].item = Head(qModel)
          /\ (pc[t] = "Send_cs" /\ pc'[t] = "user" /\ result'[t].code = "SUCCESS")
             => Len(qModel) < QCap]_vars


\* C32: round-robin at equal priority.  When PendSV takes the processor
\* from a task that stays ready to run, and another task of the same
\* priority was READY before the switch and is READY after it, the task
\* selected is not the one that has just run: otherwise that task, never
\* blocking, is selected at every switch and the other one is starved.
C32_RoundRobinAtEqualPriority ==
    [][(PendSV_Handler /\ sCurrentTCB' = sCurrentTCB) =>
          ~\E i \in 1..Len(readyTaskList) :
              LET u == readyTaskList[i] IN
              /\ u # sCurrentTCB
              /\ tcbState[u] = READY
              /\ tcbState'[u] = READY
              /\ tcbPriority[u] = tcbPriority[sCurrentTCB]]_vars


\* the steps of the kernel calls that the source executes outside a
\* getInterruptMask / setInterruptMask pair: the tests between two critical
\* sections of wait and of the Receive of the circular buffer, every pass of
\* Queue::Receive after the first, the capacity test of Queue::Send, and
\* the whole of Timer::Init
UnmaskedStep ==
    \/ \E t \in Tasks :
          \/ wait_chk(t) \/ wait_yield(t)
          \/ Recv_chk(t) \/ Recv_yield(t) \/ Recv_top(t) \/ Recv_take(t)
          \/ CBRecv_chk(t) \/ CBRecv_yield(t)
          \/ \E item \in QItems : Send_chk(t, item)
    \/ \E t \in Tasks, tm \in TimerIds, timeoutTicks \in TimerTimeouts, autoReload \in BOOLEAN :
          Timer_Init(t, tm, timeoutTicks, autoReload)

\* C33: the ready list, the waiter lists, the contents of the semaphore, the
\* queue and the circular buffer, and the timer list change only in steps
\* taken with the interrupt mask raised.
C33_MutationsUnderMask ==
    [][UnmaskedStep =>
          UNCHANGED <<readyTaskList, node, tail, semList, qList, cbList, semVal,
                      mQueue, mFront, mRear, mSize,
                      mBuffer, mHead, mTail, mCurrentSize, sTimerList>>]_vars


\* C34: Task::Create and CreateTaskForBinModule return with BASEPRI equal
\* to its value at the call, whatever they return.
C34_MaskRestored ==
    [][/\ \A n \in UserTasks, prio \in BootPrios, stackDepth \in StackDepths :
            Create_beforeStart(n, prio, stackDepth) => basepri' = basepri
       /\ \A n \in UserTasks, bin \in BinImages, prio \in BootPrios :
            CreateTaskForBinModule(n, bin, prio) => basepri' = basepri]_vars


\* C35: when Task::Create or CreateTaskForBinModule returns Success, the
\* new TCB is the last element of the ready list and its state is READY.
C35_CreatedTaskIsLastInList ==
    [][\A n \in UserTasks, prio \in BootPrios :
          ( /\ \/ \E stackDepth \in StackDepths : Create_beforeStart(n, prio, stackDepth)
               \/ \E bin \in BinImages : CreateTaskForBinModule(n, bin, prio)
            /\ bootResult' = "SUCCESS" )
          => /\ readyTaskList' # <<>>
             /\ readyTaskList'[Len(readyTaskList')] = n
             /\ Len(readyTaskList') = Len(readyTaskList) + 1
             /\ tcbState'[n] = READY]_vars


\* C36: delays and blocking timeouts are honoured across the wrap of the
\* 32-bit tick counter: a task that called Delay(ticks) or a blocking wait
\* with timeout ticks is not made READY by the scheduler, and does not take
\* its timeout exit, before ticks ticks have elapsed since the call, and a
\* scheduling decision taken once they have elapsed wakes it.
C36_HonouredAcrossWrap ==
    [][\A t \in UserTasks :
         /\ (tcbState[t] = DELAYED /\ tcbState'[t] \in {READY, RUNNING})
                => nTicks' >= wakeTick[t]
         /\ (pc[t] # "wait_tmo" /\ pc'[t] = "wait_tmo")
                => nTicks' - enterTick'[t] >= loc'[t].ticks
         /\ (ContextSwitch /\ tcbState[t] = DELAYED /\ nTicks >= wakeTick[t])
                => tcbState'[t] \in {READY, RUNNING}]_vars


(***************************************************************************)
(* Cycle accounting: the application has enabled the cycle counter, which  *)
(* is three cycles short of its wrap when the first task starts.           *)
(***************************************************************************)
InitCycles == Scheduler_StartAt(<<"T1", "T2">>, 0, CyclesAtStart) /\ semVal = 0

NextCycles ==
    \/ SysTick_Handler
    \/ PendSV_Handler
    \/ TimerISR(TimerSVC)
    \/ \E t \in UserTasks : Yield(t)
    \/ DWT_Count

SpecCycles == InitCycles /\ [][NextCycles]_vars

\* C37: at every context switch the outgoing task's executionTime is
\* increased by (exit - enter) mod 2^32, the cycles it ran since it was
\* switched in, also when the counter wrapped in between; it never decreases.
C37_ExecutionTimeAccumulates ==
    [][PendSV_Handler =>
         /\ executionTime'[sCurrentTCB] =
               Add64(executionTime[sCurrentTCB],
                     Sub32(exitCycles'[sCurrentTCB], enterCycles[sCurrentTCB]))
         /\ \/ executionTime'[sCurrentTCB].hi > executionTime[sCurrentTCB].hi
            \/ /\ executionTime'[sCurrentTCB].hi = executionTime[sCurrentTCB].hi
               /\ UGe(executionTime'[sCurrentTCB].lo, executionTime[sCurrentTCB].lo)]_vars


(***************************************************************************)
(* The circular buffer with callers that pass a size beyond their array:   *)
(* 0xFFFFFFFF and 0xFFFFFFFE, for which mCurrentSize + size wraps.         *)
(***************************************************************************)
HugeSizes == {-1, -2}

\* Send(data, size) with a size of HugeSizes; the guard bounds the run
Send_hugeSize(t) ==
    /\ Len(cbModel) <= CBCap
    /\ \E data \in Chunks, size \in HugeSizes : CircularBuffer_SendN(t, data, size)

InitCBWide == Scheduler_Start(<<"T1">>, 0) /\ semVal = 0

NextCBWide ==
    \/ SysTick_Handler
    \/ PendSV_Handler
    \/ TimerISR(TimerSVC)
    \/ \E data \in Chunks : CircularBuffer_Send("T1", data)
    \/ Send_hugeSize("T1")

SpecCBWide == InitCBWide /\ [][NextCBWide]_vars

\* mCurrentSize + size, taken without the wrap, exceeds the capacity
SumExceedsCapacity(cur, size) ==
    \/ ULt(Add32(cur, size), cur)
    \/ ULt(CBCap, Add32(cur, size))

\* the two memcpy calls of Send stay inside mBuffer
CopyInsideBuffer(head, size) ==
    IF UGe(CBCap, Add32(head, size))
    THEN UGe(Add32(head, size), head)
    ELSE UGe(CBCap, Sub32(size, CBCap - head))

\* C38: Send(data, size) returns CircularBufferFull and leaves head, tail,
\* current size and the stored bytes as they are whenever current size + size
\* exceeds the capacity, for every 32-bit size, also one for which the 32-bit
\* sum wraps; and a Send that succeeds writes inside the buffer only.
C38_FullForEverySize ==
    [][\A t \in UserTasks, data \in Chunks, size \in 1..MaxChunk \cup HugeSizes :
          CircularBuffer_SendN(t, data, size) =>
             /\ SumExceedsCapacity(mCurrentSize, size) =>
                   /\ pc'[t] = "user"
                   /\ result'[t].op = "CB_Send"
                   /\ result'[t].code = "CIRCULAR_BUFFER_FULL"
                   /\ UNCHANGED <<mBuffer, mHead, mTail, mCurrentSize>>
             /\ (pc'[t] = "user" /\ result'[t].code = "SUCCESS")
                   => CopyInsideBuffer(mHead, size)]_vars


(***************************************************************************)
(* Task::Create before Scheduler::Start with a stack of fewer words than   *)
(* initStack pushes.  The frame of a stack of SmallStackDepth words ends   *)
(* in the gap and the two markers in front of the stack's block, which     *)
(* only deallocate reads; no action here deallocates a stack.  Addresses   *)
(* are offsets into the pool, which is aligned to 8.                       *)
(***************************************************************************)
SmallStackDepth == 16

FrameDepths == {SmallStackDepth, UserStackDepth}

NextStack ==
    \/ \E size \in BootPools : Config_InitMem(size)
    \/ \E n \in UserTasks, prio \in BootPrios, stackDepth \in FrameDepths :
           Create_beforeStart(n, prio, stackDepth)

SpecStack == InitBoot /\ [][NextStack]_vars

\* C39: when Create returns Success, the stack pointer saved in the TCB is
\* a multiple of 8 and lies within [stack, stack + 4 * stackDepth], and
\* every word of the frame initStack has written lies inside the stack.
C39_SeededFrameInsideStack ==
    [][\A n \in UserTasks, prio \in BootPrios, stackDepth \in FrameDepths :
          (Create_beforeStart(n, prio, stackDepth) /\ bootResult' = "SUCCESS") =>
             LET m == tcbMem'[n]
             IN /\ m.stackTop % 8 = 0
                /\ m.stack <= m.stackTop
                /\ m.stackTop <= m.stack + 4 * stackDepth
                /\ \A w \in 0..(FrameWords - 1) :
                      /\ m.stack <= m.stackTop + 4 * w
                      /\ m.stackTop + 4 * w + 4 <= m.stack + 4 * stackDepth]_vars


\* the stack size CreateTaskForBinModule takes from the header
stackSizeOrDefault(bin) ==
    IF stackSizeOf(bin) = 0 THEN DEFAULT_STACK_SIZE ELSE stackSizeOf(bin)

\* C40: CreateTaskForBinModule allocates a RAM region of data_size +
\* bss_size + stack_size bytes, stack_size being stack_pointer - msp_limit
\* or 1024 when that is zero, and the task's stack is the last stack_size
\* bytes of the region: inside the allocation, above the data and the bss.
C40_StackInsideRamRegion ==
    [][\A n \in UserTasks, bin \in BinImages, prio \in BootPrios :
          (CreateTaskForBinModule(n, bin, prio) /\ bootResult' = "SUCCESS") =>
             LET m == tcbMem'[n]
                 region == bin.section_data_size + bin.section_bss_size
                              + stackSizeOrDefault(bin)
             IN /\ \E i \in 1..Len(heap') :
                      /\ PayloadOf(heap'[i]) = m.ram
                      /\ ~heap'[i].free
                      /\ heap'[i].size >= region
                /\ 4 * m.stackSize = stackSizeOrDefault(bin)
                /\ m.stack = m.ram + region - stackSizeOrDefault(bin)
                /\ m.ram <= m.stack
                /\ m.stack + 4 * m.stackSize <= m.ram + region
                /\ m.ram + bin.section_data_size + bin.section_bss_size <= m.stack]_vars

=============================================================================
